---- MODULE Spec2Model ----
(***************************************************************************)
(* A model of Simple-RDBMS: the SQL parser, the query executor, the table  *)
(* validator, the index manager and the JSON file store behind them.       *)
(* A query text is a sequence of lexical tokens; query() parses it and     *)
(* executes the resulting node against the files of the data directory.    *)
(***************************************************************************)
EXTENDS Integers, Sequences, FiniteSets, TLC

VARIABLES
    meta,        \* data directory: <table>.meta.json, table name -> metadata
    data,        \* data directory: <table>.json, table name -> row sequence
    idxDisk,     \* data directory: <table>_<column>.idx.json, file stem -> entries
    idxCache,    \* IndexManager.indexes, "<table>.<column>" -> entries
    tables,      \* Database.tables, table name -> metadata held by the Table object
    lastQuery,   \* the last call made on the database and its input
    lastResult,  \* what that call gave back to its caller
    peer         \* a second Database, in another process, on the same directory

vars == <<meta, data, idxDisk, idxCache, tables, lastQuery, lastResult, peer>>

(***************************************************************************)
(* JavaScript values.  Every value is a record of the same shape so that   *)
(* values of different JavaScript types can be compared.                   *)
(***************************************************************************)
Null == [t |-> "null", n |-> 0, s |-> ""]
Undef == [t |-> "undef", n |-> 0, s |-> ""]
NaN == [t |-> "nan", n |-> 0, s |-> ""]
IntV(i) == [t |-> "int", n |-> i, s |-> ""]
StrV(str) == [t |-> "str", n |-> 0, s |-> str]
BoolV(b) == [t |-> "bool", n |-> IF b THEN 1 ELSE 0, s |-> ""]

IsNullish(v) == v.t \in {"null", "undef"}

\* The decimal numerals the model's strings can spell: DigitStr[i + 1] = String(i).
DigitStr == <<"0", "1", "2", "3", "4", "5", "6", "7", "8", "9">>

\* The model's strings in ascending code-unit order (JavaScript's string "<").
StrOrder == <<"0", "1", "2", "3", "4", "5", "6", "7", "8", "9",
              "a", "false", "p", "q", "true">>

StrRank(str) == CHOOSE i \in 1..Len(StrOrder) : StrOrder[i] = str

\* String(n) for a number.
NumToString(i) == DigitStr[i + 1]

\* Number(str) / parseInt(str, 10) / parseFloat(str) on the model's strings:
\* a numeral gives its number, any other string gives NaN.
StringToNumber(str) ==
    IF \E i \in 1..Len(DigitStr) : DigitStr[i] = str
    THEN IntV((CHOOSE i \in 1..Len(DigitStr) : DigitStr[i] = str) - 1)
    ELSE NaN

\* JavaScript String(value).
ToStringJS(v) ==
    CASE v.t = "str" -> v
      [] v.t = "int" -> StrV(NumToString(v.n))
      [] v.t = "bool" -> StrV(IF v.n = 1 THEN "true" ELSE "false")
      [] v.t = "null" -> StrV("null")
      [] v.t = "undef" -> StrV("undefined")
      [] OTHER -> StrV("NaN")

\* JavaScript Number(value) (ToNumber).
ToNumberJS(v) ==
    CASE v.t = "int" -> v
      [] v.t = "str" -> StringToNumber(v.s)
      [] v.t = "bool" -> IntV(v.n)
      [] v.t = "null" -> IntV(0)
      [] OTHER -> NaN

\* parseInt(value, 10): the value is first turned into a string.
ParseIntJS(v) ==
    IF v.t = "int" THEN v
    ELSE IF v.t = "str" THEN StringToNumber(v.s)
    ELSE NaN

\* JavaScript a === b.
StrictEq(a, b) == a.t # "nan" /\ a = b

\* JavaScript a == b.
LooseEq(a, b) ==
    LET num(v) == IF v.t = "bool" THEN IntV(v.n) ELSE v
        x == num(a)
        y == num(b)
    IN  CASE IsNullish(a) \/ IsNullish(b) -> IsNullish(a) /\ IsNullish(b)
          [] x.t = "nan" \/ y.t = "nan" -> FALSE
          [] x.t = y.t -> x = y
          [] OTHER -> LET p == ToNumberJS(x)
                          q == ToNumberJS(y)
                      IN  p.t = "int" /\ q.t = "int" /\ p.n = q.n

\* JavaScript a < b.
LessJS(a, b) ==
    IF a.t = "str" /\ b.t = "str"
    THEN StrRank(a.s) < StrRank(b.s)
    ELSE LET p == ToNumberJS(a)
             q == ToNumberJS(b)
         IN  p.t = "int" /\ q.t = "int" /\ p.n < q.n

\* JavaScript a <= b.
LessEqJS(a, b) ==
    IF a.t = "str" /\ b.t = "str"
    THEN StrRank(a.s) <= StrRank(b.s)
    ELSE LET p == ToNumberJS(a)
             q == ToNumberJS(b)
         IN  p.t = "int" /\ q.t = "int" /\ p.n <= q.n

(***************************************************************************)
(* Rows are JavaScript objects: functions from the keys present to values. *)
(***************************************************************************)
\* row[key]: undefined for a key the object lacks.
Get(row, key) == IF key \in DOMAIN row THEN row[key] ELSE Undef

EmptyRow == [k \in {} |-> Null]

\* { ...row, ...updates }
Spread(row, updates) ==
    [k \in (DOMAIN row) \cup (DOMAIN updates) |->
        IF k \in DOMAIN updates THEN updates[k] ELSE row[k]]

\* JSON.parse(JSON.stringify(row)): keys holding undefined are dropped and NaN
\* is written as null.
JsonRow(row) ==
    [k \in {c \in DOMAIN row : row[c].t # "undef"} |->
        IF row[k].t = "nan" THEN Null ELSE row[k]]

(***************************************************************************)
(* The state the operations work on, and the outcome of a call that may    *)
(* throw: the value returned or the message of the Error thrown, with the  *)
(* state the call leaves behind.                                           *)
(***************************************************************************)
St == [meta |-> meta, data |-> data, idxDisk |-> idxDisk,
       idxCache |-> idxCache, tables |-> tables]

Return(val, st) == [thrown |-> FALSE, msg |-> "", val |-> val, st |-> st]
Throw(msg, st) == [thrown |-> TRUE, msg |-> msg, val |-> Null, st |-> st]

\* map.delete(key) / fs.unlinkSync(file)
Without(f, key) == [k \in (DOMAIN f) \ {key} |-> f[k]]

\* map.set(key, val) / fs.writeFileSync(file, val)
With(f, key, val) == [k \in (DOMAIN f) \cup {key} |-> IF k = key THEN val ELSE f[k]]

\* A Map, or a directory, with nothing in it.
EmptyMap == [k \in {} |-> Null]

\* const value = ...; followed by the statements that use it.
Let(value, In(_)) == In(value)

\* A call followed by the rest of the function body: an Error thrown by the
\* call leaves the body at once and goes on to the caller.
Bind(outcome, Then(_)) == IF outcome.thrown THEN outcome ELSE Then(outcome)

(***************************************************************************)
(* StorageEngine: the JSON file store.                                     *)
(***************************************************************************)
tableExists(st, tableName) ==
    tableName \in DOMAIN st.data /\ tableName \in DOMAIN st.meta

NotExistMsg(tableName) == "Table '" \o tableName \o "' does not exist"

\* createTable with the check for an existing table left out: the files are
\* written over.
storageCreateTableOverwrites(st, tableName, schema) ==
    LET metadata == [tableName |-> tableName,
                     columns |-> schema.columns,
                     primaryKey |-> schema.primaryKey,
                     uniqueKeys |-> schema.uniqueKeys]
    IN  Return(metadata,
               [st EXCEPT !.meta = With(st.meta, tableName, metadata),
                          !.data = With(st.data, tableName, <<>>)])

\* schema.primaryKey || null is written as "" when there is no primary key.
storageCreateTable(st, tableName, schema) ==
    IF tableExists(st, tableName)
    THEN Throw("Table '" \o tableName \o "' already exists", st)
    ELSE LET metadata == [tableName |-> tableName,
                          columns |-> schema.columns,
                          primaryKey |-> schema.primaryKey,
                          uniqueKeys |-> schema.uniqueKeys]
         IN  Return(metadata,
                    [st EXCEPT !.meta = With(st.meta, tableName, metadata),
                               !.data = With(st.data, tableName, <<>>)])

getTableMetadata(st, tableName) ==
    IF ~tableExists(st, tableName)
    THEN Throw(NotExistMsg(tableName), st)
    ELSE Return(st.meta[tableName], st)

loadTableData(st, tableName) ==
    IF ~tableExists(st, tableName)
    THEN Throw(NotExistMsg(tableName), st)
    ELSE Return(st.data[tableName], st)

saveTableData(st, tableName, rows) ==
    IF ~tableExists(st, tableName)
    THEN Throw(NotExistMsg(tableName), st)
    ELSE Return(Null, [st EXCEPT !.data = With(st.data, tableName,
                                            [i \in 1..Len(rows) |-> JsonRow(rows[i])])])

insertRow(st, tableName, row) ==
    Bind(loadTableData(st, tableName), LAMBDA loaded :
    Bind(saveTableData(st, tableName, Append(loaded.val, row)), LAMBDA saved :
    Return(row, saved.st)))

storageDropTable(st, tableName) ==
    IF ~tableExists(st, tableName)
    THEN Throw(NotExistMsg(tableName), st)
    ELSE Return(Null, [st EXCEPT !.data = Without(st.data, tableName),
                                 !.meta = Without(st.meta, tableName)])

(***************************************************************************)
(* Table: type checks, coercion and the constraint checks of an insert.    *)
(***************************************************************************)
\* type.toUpperCase() on the type names the model's schemas spell.
TypeUpper(type) ==
    CASE type = "integer" -> "INTEGER"
      [] type = "int" -> "INT"
      [] type = "text" -> "TEXT"
      [] type = "boolean" -> "BOOLEAN"
      [] OTHER -> type

validateType(value, type) ==
    LET ty == TypeUpper(type)
    IN  CASE ty \in {"INTEGER", "INT"} -> ToNumberJS(value).t = "int"
          [] ty \in {"TEXT", "VARCHAR"} -> value.t = "str"
          [] ty \in {"BOOLEAN", "BOOL"} ->
                value.t = "bool" \/ value = StrV("true") \/ value = StrV("false")
          [] ty \in {"FLOAT", "REAL"} -> ParseIntJS(value).t = "int"
          [] OTHER -> TRUE

\* coerceType with the conversion left out: the value is kept as written.
coerceTypeKeepsText(value, type) ==
    IF IsNullish(value) THEN Null ELSE value

coerceType(value, type) ==
    LET ty == TypeUpper(type)
    IN  IF IsNullish(value) THEN Null
        ELSE CASE ty \in {"INTEGER", "INT"} -> ParseIntJS(value)
               [] ty \in {"TEXT", "VARCHAR"} -> ToStringJS(value)
               [] ty \in {"BOOLEAN", "BOOL"} ->
                     IF value.t = "bool" THEN value
                     ELSE BoolV(value = StrV("true") \/ value = StrV("1")
                                \/ value = IntV(1))
               [] ty \in {"FLOAT", "REAL"} -> ParseIntJS(value)
               [] OTHER -> value

\* The messages validateRow collects, column by column.
RECURSIVE RowErrors(_, _, _)
RowErrors(columns, row, i) ==
    IF i > Len(columns) THEN <<>>
    ELSE LET column == columns[i]
             value == Get(row, column.name)
             nullErr == IF "NOT_NULL" \in column.constraints /\ IsNullish(value)
                        THEN <<"Column '" \o column.name \o "' cannot be null">>
                        ELSE <<>>
             typeErr == IF ~IsNullish(value) /\ ~validateType(value, column.type)
                        THEN <<"Invalid type for column '" \o column.name
                               \o "'. Expected " \o column.type>>
                        ELSE <<>>
         IN  nullErr \o typeErr \o RowErrors(columns, row, i + 1)

\* errors.join(", ")
RECURSIVE JoinComma(_)
JoinComma(errors) ==
    IF Len(errors) = 0 THEN ""
    ELSE IF Len(errors) = 1 THEN errors[1]
    ELSE errors[1] \o ", " \o JoinComma(Tail(errors))

validateRow(st, metadata, row) ==
    Let(RowErrors(metadata.columns, row, 1), LAMBDA errors :
    IF Len(errors) > 0
    THEN Throw("Validation failed: " \o JoinComma(errors), st)
    ELSE Return(TRUE, st))

\* existingRows.find((r) => r[column] === value) finds a row.
HasDuplicate(existingRows, column, value) ==
    \E i \in 1..Len(existingRows) : StrictEq(Get(existingRows[i], column), value)

\* validatePrimaryKey with the scan for an equal key left out.
validatePrimaryKeyNoScan(st, metadata, row, existingRows) ==
    IF metadata.primaryKey = "" THEN Return(TRUE, st)
    ELSE IF IsNullish(Get(row, metadata.primaryKey))
         THEN Throw("Primary key '" \o metadata.primaryKey \o "' cannot be null", st)
         ELSE Return(TRUE, st)

validatePrimaryKey(st, metadata, row, existingRows) ==
    IF metadata.primaryKey = "" THEN Return(TRUE, st)
    ELSE Let(Get(row, metadata.primaryKey), LAMBDA pkValue :
         IF IsNullish(pkValue)
         THEN Throw("Primary key '" \o metadata.primaryKey \o "' cannot be null", st)
         ELSE IF HasDuplicate(existingRows, metadata.primaryKey, pkValue)
         THEN Throw("Duplicate primary key value: " \o ToStringJS(pkValue).s, st)
         ELSE Return(TRUE, st))

RECURSIVE UniqueKeyCheck(_, _, _, _, _)
UniqueKeyCheck(st, uniqueKeys, row, existingRows, i) ==
    IF i > Len(uniqueKeys) THEN Return(TRUE, st)
    ELSE Let(Get(row, uniqueKeys[i]), LAMBDA value :
         IF ~IsNullish(value) /\ HasDuplicate(existingRows, uniqueKeys[i], value)
         THEN Throw("Duplicate unique key value for '" \o uniqueKeys[i] \o "': "
                    \o ToStringJS(value).s, st)
         ELSE UniqueKeyCheck(st, uniqueKeys, row, existingRows, i + 1))

validateUniqueKeys(st, metadata, row, existingRows) ==
    UniqueKeyCheck(st, metadata.uniqueKeys, row, existingRows, 1)

prepareRow(metadata, row) ==
    [name \in {metadata.columns[i].name : i \in 1..Len(metadata.columns)} |->
        LET column == CHOOSE col \in {metadata.columns[i] : i \in 1..Len(metadata.columns)} :
                          col.name = name
        IN  IF Get(row, name).t # "undef"
            THEN coerceType(Get(row, name), column.type)
            ELSE Null]

\* insert with the row written before it is validated.
insertWritesFirst(st, tableName, metadata, row) ==
    Let(prepareRow(metadata, row), LAMBDA preparedRow :
    Bind(loadTableData(st, tableName), LAMBDA loaded :
    Bind(insertRow(st, tableName, preparedRow), LAMBDA stored :
    Bind(validateRow(stored.st, metadata, preparedRow), LAMBDA valid :
    Bind(validatePrimaryKey(stored.st, metadata, preparedRow, loaded.val), LAMBDA pkFree :
    Bind(validateUniqueKeys(stored.st, metadata, preparedRow, loaded.val), LAMBDA uniqueFree :
    stored))))))

\* Table.insert
insert(st, tableName, metadata, row) ==
    Let(prepareRow(metadata, row), LAMBDA preparedRow :
    Bind(loadTableData(st, tableName), LAMBDA loaded :
    Bind(validateRow(st, metadata, preparedRow), LAMBDA valid :
    Bind(validatePrimaryKey(st, metadata, preparedRow, loaded.val), LAMBDA pkFree :
    Bind(validateUniqueKeys(st, metadata, preparedRow, loaded.val), LAMBDA uniqueFree :
    insertRow(st, tableName, preparedRow))))))

\* Table.getAll
getAll(st, tableName) == loadTableData(st, tableName)

(***************************************************************************)
(* Conditions.  A comparison is {column, operator, value}; an AND / OR     *)
(* node is {type, conditions}; NoWhere is the null of a missing WHERE.     *)
(***************************************************************************)
Cmp(column, operator, value) ==
    [type |-> "CMP", column |-> column, operator |-> operator, value |-> value,
     conditions |-> <<>>]
Compound(type, conditions) ==
    [type |-> type, column |-> "", operator |-> "", value |-> Null,
     conditions |-> conditions]
NoWhere == [type |-> "NONE", column |-> "", operator |-> "", value |-> Null,
            conditions |-> <<>>]

Operators == <<">=", "<=", "!=", "=", ">", "<">>

\* The switch of evaluateCondition on a known operator.
Compare(value, operator, compareValue) ==
    CASE operator = "=" -> LooseEq(value, compareValue)
      [] operator = "!=" -> ~LooseEq(value, compareValue)
      [] operator = ">" -> LessJS(compareValue, value)
      [] operator = "<" -> LessJS(value, compareValue)
      [] operator = ">=" -> LessEqJS(compareValue, value)
      [] operator = "<=" -> LessEqJS(value, compareValue)

\* evaluateCondition: "T" or "F", or "X" when it throws 'Unknown operator'.
\* every() and some() stop at the first child that decides the result.
RECURSIVE evaluateCondition(_, _)
RECURSIVE EvalFrom(_, _, _, _)
EvalFrom(row, conditions, i, type) ==
    IF i > Len(conditions) THEN (IF type = "AND" THEN "T" ELSE "F")
    ELSE LET r == evaluateCondition(row, conditions[i])
         IN  IF r = "X" THEN "X"
             ELSE IF type = "AND" /\ r = "F" THEN "F"
             ELSE IF type = "OR" /\ r = "T" THEN "T"
             ELSE EvalFrom(row, conditions, i + 1, type)

evaluateCondition(row, condition) ==
    IF condition.type \in {"AND", "OR"}
    THEN EvalFrom(row, condition.conditions, 1, condition.type)
    ELSE IF \A i \in 1..Len(Operators) : Operators[i] # condition.operator
    THEN "X"
    ELSE IF Compare(Get(row, condition.column), condition.operator, condition.value)
    THEN "T" ELSE "F"

UnknownOperatorMsg(condition) == "Unknown operator: " \o condition.operator

\* The first condition (in evaluation order over the rows) that throws.
CondThrows(rows, condition) ==
    \E i \in 1..Len(rows) : evaluateCondition(rows[i], condition) = "X"

\* rows.filter(...): the rows at the positions in kept, in their order.
RECURSIVE FilterSeq(_, _, _)
FilterSeq(rows, kept, i) ==
    IF i > Len(rows) THEN <<>>
    ELSE (IF i \in kept THEN <<rows[i]>> ELSE <<>>) \o FilterSeq(rows, kept, i + 1)

\* The filter closure of an UPDATE or DELETE: () => true without a WHERE.
Matches(row, condition) ==
    IF condition = NoWhere THEN TRUE ELSE evaluateCondition(row, condition) = "T"

\* update with the condition left out of the map: every row is updated.
updateEveryRow(st, tableName, updates, condition) ==
    Bind(loadTableData(st, tableName), LAMBDA loaded :
    Bind(saveTableData(st, tableName,
                       [i \in 1..Len(loaded.val) |-> Spread(loaded.val[i], updates)]),
         LAMBDA saved : Return(Len(loaded.val), saved.st)))

\* Table.update; condition is the WHERE node, NoWhere for the null closure.
update(st, tableName, updates, condition) ==
    Bind(loadTableData(st, tableName), LAMBDA loaded :
    IF condition # NoWhere /\ CondThrows(loaded.val, condition)
    THEN Throw(UnknownOperatorMsg(condition), st)
    ELSE Let({i \in 1..Len(loaded.val) : Matches(loaded.val[i], condition)}, LAMBDA hits :
         Bind(saveTableData(st, tableName,
                            [i \in 1..Len(loaded.val) |->
                                IF i \in hits THEN Spread(loaded.val[i], updates)
                                ELSE loaded.val[i]]),
              LAMBDA saved : Return(Cardinality(hits), saved.st))))

\* deleteRows with the filter inverted: the rows that match are the ones kept.
deleteRowsKeepsMatches(st, tableName, condition) ==
    Bind(loadTableData(st, tableName), LAMBDA loaded :
    Let(FilterSeq(loaded.val,
                  {i \in 1..Len(loaded.val) : Matches(loaded.val[i], condition)}, 1),
        LAMBDA newRows :
    Bind(saveTableData(st, tableName, newRows), LAMBDA saved :
    Return(Len(loaded.val) - Len(newRows), saved.st))))

\* Table.delete; NoWhere stands for the closure () => true.
deleteRows(st, tableName, condition) ==
    Bind(loadTableData(st, tableName), LAMBDA loaded :
    IF condition # NoWhere /\ CondThrows(loaded.val, condition)
    THEN Throw(UnknownOperatorMsg(condition), st)
    ELSE Let(FilterSeq(loaded.val,
                       {i \in 1..Len(loaded.val) : ~Matches(loaded.val[i], condition)}, 1),
             LAMBDA newRows :
         Bind(saveTableData(st, tableName, newRows), LAMBDA saved :
         Return(Len(loaded.val) - Len(newRows), saved.st))))

(***************************************************************************)
(* IndexManager.  An index is a Map from a column value to the ascending   *)
(* 0-based positions of the rows holding it; Map keys are compared with    *)
(* SameValueZero, so 5 and "5" are different keys.                         *)
(***************************************************************************)
getIndexPath(tableName, columnName) == tableName \o "_" \o columnName
CacheKey(tableName, columnName) == tableName \o "." \o columnName

\* The positions of value among the rows' columnName values, in ascending order.
RECURSIVE PositionsOf(_, _, _, _)
PositionsOf(rows, columnName, value, i) ==
    IF i > Len(rows) THEN <<>>
    ELSE (IF Get(rows[i], columnName) = value THEN <<i - 1>> ELSE <<>>)
         \o PositionsOf(rows, columnName, value, i + 1)

\* The Map that the forEach of buildIndex fills.
IndexOf(columnName, rows) ==
    [value \in {Get(rows[i], columnName) : i \in
                   {j \in 1..Len(rows) : ~IsNullish(Get(rows[j], columnName))}} |->
        PositionsOf(rows, columnName, value, 1)]

\* The file holds the entries (and a createdAt stamp, which no reader uses).
buildIndex(st, tableName, columnName, rows) ==
    Let(IndexOf(columnName, rows), LAMBDA index :
    Return(index,
           [st EXCEPT !.idxDisk = With(st.idxDisk, getIndexPath(tableName, columnName), index),
                      !.idxCache = With(st.idxCache, CacheKey(tableName, columnName), index)]))

\* loadIndex with the look into the cache left out: the file is read each time.
loadIndexFromDisk(st, tableName, columnName) ==
    LET cacheKey == CacheKey(tableName, columnName)
        indexPath == getIndexPath(tableName, columnName)
    IN  IF indexPath \notin DOMAIN st.idxDisk
        THEN Return([found |-> FALSE, index |-> EmptyMap], st)
        ELSE Return([found |-> TRUE, index |-> st.idxDisk[indexPath]],
                    [st EXCEPT !.idxCache = With(st.idxCache, cacheKey, st.idxDisk[indexPath])])

\* loadIndex: val is [found, index]; a file read is cached.
loadIndex(st, tableName, columnName) ==
    LET cacheKey == CacheKey(tableName, columnName)
        indexPath == getIndexPath(tableName, columnName)
    IN  IF cacheKey \in DOMAIN st.idxCache
        THEN Return([found |-> TRUE, index |-> st.idxCache[cacheKey]], st)
        ELSE IF indexPath \notin DOMAIN st.idxDisk
        THEN Return([found |-> FALSE, index |-> EmptyMap], st)
        ELSE Return([found |-> TRUE, index |-> st.idxDisk[indexPath]],
                    [st EXCEPT !.idxCache = With(st.idxCache, cacheKey, st.idxDisk[indexPath])])

\* lookup: val is [found, positions]; found = FALSE is the null of 'no index'.
lookup(st, tableName, columnName, value) ==
    Bind(loadIndex(st, tableName, columnName), LAMBDA loaded :
    IF ~loaded.val.found
    THEN Return([found |-> FALSE, positions |-> <<>>], loaded.st)
    ELSE Return([found |-> TRUE,
                 positions |-> IF value \in DOMAIN loaded.val.index
                               THEN loaded.val.index[value] ELSE <<>>],
                loaded.st))

dropIndex(st, tableName, columnName) ==
    Return(Null, [st EXCEPT !.idxDisk = Without(st.idxDisk, getIndexPath(tableName, columnName)),
                            !.idxCache = Without(st.idxCache, CacheKey(tableName, columnName))])

\* rebuildIndex with the drop left out and the build adding to what is there:
\* the positions of the rows are appended to the entries of the old index.
rebuildIndexAppends(st, tableName, columnName, rows) ==
    Let(IndexOf(columnName, rows), LAMBDA fresh :
    Let(IF CacheKey(tableName, columnName) \in DOMAIN st.idxCache
        THEN st.idxCache[CacheKey(tableName, columnName)] ELSE EmptyMap, LAMBDA old :
    Let([value \in (DOMAIN fresh) \cup (DOMAIN old) |->
            (IF value \in DOMAIN old THEN old[value] ELSE <<>>)
            \o (IF value \in DOMAIN fresh THEN fresh[value] ELSE <<>>)], LAMBDA index :
    Return(index,
           [st EXCEPT !.idxDisk = With(st.idxDisk, getIndexPath(tableName, columnName), index),
                      !.idxCache = With(st.idxCache, CacheKey(tableName, columnName), index)]))))

rebuildIndex(st, tableName, columnName, rows) ==
    buildIndex(dropIndex(st, tableName, columnName).st, tableName, columnName, rows)

\* The primary key, then every unique key: the columns that get an index.
IndexedColumns(metadata) ==
    (IF metadata.primaryKey # "" THEN <<metadata.primaryKey>> ELSE <<>>)
    \o metadata.uniqueKeys

RECURSIVE BuildAll(_, _, _, _, _)
BuildAll(st, tableName, columns, rows, i) ==
    IF i > Len(columns) THEN st
    ELSE BuildAll(buildIndex(st, tableName, columns[i], rows).st, tableName, columns, rows, i + 1)

createDefaultIndexes(st, tableName, metadata, rows) ==
    Return(Null, BuildAll(st, tableName, IndexedColumns(metadata), rows, 1))

(***************************************************************************)
(* SQLParser.  parse() first trims the text and collapses white space, so  *)
(* a text is modelled as its sequence of lexical tokens: words (keywords,  *)
(* identifiers, bare literals), qualified names a.b, integer numerals,     *)
(* quoted strings, comparison operators and punctuation.                   *)
(***************************************************************************)
Tok(k, str, c, i) == [k |-> k, s |-> str, c |-> c, n |-> i]
W(str) == Tok("word", str, "", 0)
Q(a, c) == Tok("qual", a, c, 0)
N(i) == Tok("num", "", "", i)
S(str) == Tok("str", str, "", 0)
O(str) == Tok("op", str, "", 0)
P(str) == Tok("punct", str, "", 0)

\* toUpperCase() / the i flag of the regular expressions, on the keywords.
Upper(str) ==
    CASE str = "select" -> "SELECT"
      [] str = "from" -> "FROM"
      [] str = "join" -> "JOIN"
      [] str = "on" -> "ON"
      [] str = "where" -> "WHERE"
      [] str = "and" -> "AND"
      [] str = "or" -> "OR"
      [] str = "delete" -> "DELETE"
      [] str = "primary" -> "PRIMARY"
      [] str = "key" -> "KEY"
      [] str = "unique" -> "UNIQUE"
      [] str = "not" -> "NOT"
      [] OTHER -> str

\* toLowerCase() on the bare literals parseValue looks for.
Lower(str) ==
    CASE str = "TRUE" -> "true"
      [] str = "FALSE" -> "false"
      [] str = "NULL" -> "null"
      [] OTHER -> str

\* The characters of a token as written.
TokText(tok) ==
    CASE tok.k = "qual" -> tok.s \o "." \o tok.c
      [] tok.k = "num" -> NumToString(tok.n)
      [] tok.k = "str" -> "'" \o tok.s \o "'"
      [] OTHER -> tok.s

\* The tokens written out with single blanks between them.
RECURSIVE Text(_)
Text(toks) ==
    IF Len(toks) = 0 THEN ""
    ELSE IF Len(toks) = 1 THEN TokText(toks[1])
    ELSE TokText(toks[1]) \o " " \o Text(Tail(toks))

IsKw(toks, i, kw) ==
    i \in 1..Len(toks) /\ toks[i].k = "word" /\ Upper(toks[i].s) = kw

\* The position of the first keyword kw, 0 when there is none.
FirstKw(toks, kw) ==
    IF \E i \in 1..Len(toks) : IsKw(toks, i, kw)
    THEN CHOOSE i \in 1..Len(toks) :
            IsKw(toks, i, kw) /\ \A j \in 1..(i - 1) : ~IsKw(toks, j, kw)
    ELSE 0

\* The position of the first punctuation mark str at or after from, 0 if none.
FirstPunct(toks, str, from) ==
    IF \E i \in from..Len(toks) : toks[i] = P(str)
    THEN CHOOSE i \in from..Len(toks) :
            toks[i] = P(str) /\ \A j \in from..(i - 1) : toks[j] # P(str)
    ELSE 0

\* The position of the last punctuation mark str, 0 if none.
LastPunct(toks, str) ==
    IF \E i \in 1..Len(toks) : toks[i] = P(str)
    THEN CHOOSE i \in 1..Len(toks) :
            toks[i] = P(str) /\ \A j \in (i + 1)..Len(toks) : toks[j] # P(str)
    ELSE 0

\* What (\w+) matches at the start of a token: nothing for an operator, a
\* punctuation mark or a quoted string, the part before the dot for a.b.
StartsWithWord(toks, i) == i \in 1..Len(toks) /\ toks[i].k \in {"word", "num", "qual"}
WordAt(toks, i) == IF toks[i].k = "num" THEN NumToString(toks[i].n) ELSE toks[i].s
\* (\w+) followed by white space: the token is one whole word.
WholeWord(toks, i) == i \in 1..Len(toks) /\ toks[i].k \in {"word", "num"}

\* str.split(","): the runs of tokens between the commas.
RECURSIVE SplitComma(_)
SplitComma(toks) ==
    LET c == FirstPunct(toks, ",", 1)
    IN  IF c = 0 THEN <<toks>>
        ELSE <<SubSeq(toks, 1, c - 1)>> \o SplitComma(SubSeq(toks, c + 1, Len(toks)))

\* parseValue on the text of one token run.
parseValue(toks) ==
    IF Len(toks) = 0 THEN NaN
    ELSE IF Len(toks) > 1 THEN StrV(Text(toks))
    ELSE LET tok == toks[1]
         IN  CASE tok.k = "str" -> StrV(tok.s)
               [] tok.k = "num" -> IntV(tok.n)
               [] tok.k = "word" /\ Lower(tok.s) = "true" -> BoolV(TRUE)
               [] tok.k = "word" /\ Lower(tok.s) = "false" -> BoolV(FALSE)
               [] tok.k = "word" /\ Lower(tok.s) = "null" -> Null
               [] OTHER -> StrV(TokText(tok))

\* parseValues: one value per comma-separated run; a trailing empty run is dropped.
parseValues(toks) ==
    LET runs == SplitComma(toks)
        kept == IF Len(runs[Len(runs)]) = 0 THEN SubSeq(runs, 1, Len(runs) - 1) ELSE runs
    IN  [i \in 1..Len(kept) |-> parseValue(kept[i])]

\* The position of the first operator token op, 0 if none.
FirstOp(toks, op) ==
    IF \E i \in 1..Len(toks) : toks[i] = O(op)
    THEN CHOOSE i \in 1..Len(toks) : toks[i] = O(op) /\ \A j \in 1..(i - 1) : toks[j] # O(op)
    ELSE 0

\* parseSimpleCondition: the operators are tried in the order of Operators, so
\* '=' is looked for only in a text without '>=', '<=' and '!='.  split(op)
\* gives the text before the operator and the text up to its next occurrence.
RECURSIVE SimpleFrom(_, _)
SimpleFrom(toks, k) ==
    IF k > Len(Operators) THEN Throw("Invalid condition: " \o Text(toks), Null)
    ELSE LET op == Operators[k]
             at == FirstOp(toks, op)
             rest == SubSeq(toks, at + 1, Len(toks))
             next == FirstOp(rest, op)
             part1 == IF next = 0 THEN rest ELSE SubSeq(rest, 1, next - 1)
         IN  IF at = 0 THEN SimpleFrom(toks, k + 1)
             ELSE Return(Cmp(Text(SubSeq(toks, 1, at - 1)), op, parseValue(part1)), Null)

parseSimpleCondition(toks) == SimpleFrom(toks, 1)

\* split(/\s+AND\s+/i) or split(/\s+OR\s+/i): the runs between the keyword.
RECURSIVE SplitKw(_, _)
SplitKw(toks, kw) ==
    IF \E i \in 2..(Len(toks) - 1) : IsKw(toks, i, kw)
    THEN LET c == CHOOSE i \in 2..(Len(toks) - 1) :
                     IsKw(toks, i, kw) /\ \A j \in 2..(i - 1) : ~IsKw(toks, j, kw)
         IN  <<SubSeq(toks, 1, c - 1)>> \o SplitKw(SubSeq(toks, c + 1, Len(toks)), kw)
    ELSE <<toks>>

ParseParts(parts, type) ==
    Let([i \in 1..Len(parts) |-> parseSimpleCondition(parts[i])], LAMBDA conds :
    IF \E i \in 1..Len(parts) : conds[i].thrown
    THEN conds[CHOOSE i \in 1..Len(parts) :
                  conds[i].thrown /\ \A j \in 1..(i - 1) : ~conds[j].thrown]
    ELSE Return(Compound(type, [i \in 1..Len(parts) |-> conds[i].val]), Null))

\* " AND " / " OR " inside the clause: the keyword with text on both sides.
parseWhereClause(toks) ==
    IF \E i \in 2..(Len(toks) - 1) : IsKw(toks, i, "AND")
    THEN ParseParts(SplitKw(toks, "AND"), "AND")
    ELSE IF \E i \in 2..(Len(toks) - 1) : IsKw(toks, i, "OR")
    THEN ParseParts(SplitKw(toks, "OR"), "OR")
    ELSE parseSimpleCondition(toks)

\* splitByComma: commas inside parentheses do not split; an empty last part
\* is dropped.
RECURSIVE SplitDepth(_, _, _, _)
SplitDepth(toks, i, depth, current) ==
    IF i > Len(toks) THEN (IF Len(current) > 0 THEN <<current>> ELSE <<>>)
    ELSE LET d == IF toks[i] = P("(") THEN depth + 1
                  ELSE IF toks[i] = P(")") THEN depth - 1 ELSE depth
         IN  IF toks[i] = P(",") /\ d = 0
             THEN <<current>> \o SplitDepth(toks, i + 1, d, <<>>)
             ELSE SplitDepth(toks, i + 1, d, Append(current, toks[i]))

splitByComma(toks) == SplitDepth(toks, 1, 0, <<>>)

\* upperDef.includes(kw) for a one-word keyword.
DefIncludes(colDef, kw) == \E i \in 1..Len(colDef) : IsKw(colDef, i, kw)
\* upperDef.includes("A B") for a two-word keyword.
DefIncludes2(colDef, kw1, kw2) ==
    \E i \in 1..(Len(colDef) - 1) : IsKw(colDef, i, kw1) /\ IsKw(colDef, i + 1, kw2)

\* The column object parseCreateTable pushes for one definition.
ColumnOf(colDef) ==
    [name |-> IF Len(colDef) >= 1 THEN TokText(colDef[1]) ELSE "",
     type |-> IF Len(colDef) >= 2 THEN TokText(colDef[2]) ELSE "TEXT",
     constraints |->
        (IF DefIncludes2(colDef, "PRIMARY", "KEY") THEN {"PRIMARY_KEY", "NOT_NULL"} ELSE {})
        \cup (IF DefIncludes(colDef, "UNIQUE") THEN {"UNIQUE"} ELSE {})
        \cup (IF DefIncludes2(colDef, "NOT", "NULL") THEN {"NOT_NULL"} ELSE {})]

\* The names of the definitions at the positions in picked, in order.
RECURSIVE NamesAt(_, _, _)
NamesAt(columnDefs, picked, i) ==
    IF i > Len(columnDefs) THEN <<>>
    ELSE (IF i \in picked THEN <<ColumnOf(columnDefs[i]).name>> ELSE <<>>)
         \o NamesAt(columnDefs, picked, i + 1)

parseCreateTable(toks) ==
    IF ~(WholeWord(toks, 3) /\ Len(toks) >= 5 /\ toks[4] = P("(") /\ LastPunct(toks, ")") > 4)
    THEN Throw("Invalid CREATE TABLE syntax", Null)
    ELSE Let(splitByComma(SubSeq(toks, 5, LastPunct(toks, ")") - 1)), LAMBDA columnDefs :
         Let({i \in 1..Len(columnDefs) : DefIncludes2(columnDefs[i], "PRIMARY", "KEY")},
             LAMBDA pks :
         Return([type |-> "CREATE_TABLE",
                 tableName |-> WordAt(toks, 3),
                 schema |-> [columns |-> [i \in 1..Len(columnDefs) |-> ColumnOf(columnDefs[i])],
                             primaryKey |-> IF pks = {} THEN ""
                                            ELSE ColumnOf(columnDefs[
                                                   CHOOSE i \in pks : \A j \in pks : j <= i]).name,
                             uniqueKeys |->
                                NamesAt(columnDefs,
                                        {i \in 1..Len(columnDefs) :
                                            DefIncludes(columnDefs[i], "UNIQUE")}, 1)]],
                Null)))

\* row[col] = values[idx] for every listed column; a column without a value
\* holds undefined.
parseInsert(toks) ==
    LET open1 == FirstPunct(toks, "(", 4)
        close1 == FirstPunct(toks, ")", 5)
        close2 == FirstPunct(toks, ")", close1 + 3)
        runs == SplitComma(SubSeq(toks, 5, close1 - 1))
        columns == [i \in 1..Len(runs) |-> Text(runs[i])]
        values == parseValues(SubSeq(toks, close1 + 3, close2 - 1))
    IN  IF ~(WholeWord(toks, 3) /\ open1 = 4 /\ close1 > 4
             /\ IsKw(toks, close1 + 1, "VALUES") /\ Len(toks) >= close1 + 2
             /\ toks[close1 + 2] = P("(") /\ close2 > 0)
        THEN Throw("Invalid INSERT syntax", Null)
        ELSE Return([type |-> "INSERT",
                     tableName |-> WordAt(toks, 3),
                     row |-> [col \in {columns[i] : i \in 1..Len(columns)} |->
                                LET last == CHOOSE i \in 1..Len(columns) :
                                               columns[i] = col
                                               /\ \A j \in 1..Len(columns) : columns[j] = col => j <= i
                                IN  IF last <= Len(values) THEN values[last] ELSE Undef]],
                    Null)

\* The optional WHERE of a statement: everything after the first WHERE keyword.
WhereOf(toks) ==
    LET w == FirstKw(toks, "WHERE")
    IN  IF w = 0 \/ w = Len(toks) THEN Return(NoWhere, Null)
        ELSE parseWhereClause(SubSeq(toks, w + 1, Len(toks)))

\* FROM\s+(\w+)(?:\s+(\w+))? : the word after the table name, whatever it is,
\* is taken as the alias.
FromAlias(toks, f) ==
    IF WholeWord(toks, f + 1) /\ StartsWithWord(toks, f + 2)
    THEN WordAt(toks, f + 2) ELSE ""

\* JOIN\s+(\w+)(?:\s+(\w+))?\s+ON\s+(.*?)(?:\s+WHERE|$) at the first JOIN;
\* the null of 'no join' is type "NONE", a null alias is "".
NoJoin == [type |-> "NONE", tableName |-> "", tableAlias |-> "", on |-> <<>>]

JoinOf(toks) ==
    LET j == FirstKw(toks, "JOIN")
        withAlias == WholeWord(toks, j + 2) /\ IsKw(toks, j + 3, "ON")
        onAt == IF withAlias THEN j + 3 ELSE j + 2
        after == SubSeq(toks, onAt + 1, Len(toks))
        w == FirstKw(after, "WHERE")
    IN  IF j = 0 \/ ~WholeWord(toks, j + 1) \/ ~IsKw(toks, onAt, "ON") \/ onAt >= Len(toks)
        THEN NoJoin
        ELSE [type |-> "JOIN",
              tableName |-> WordAt(toks, j + 1),
              tableAlias |-> IF withAlias THEN WordAt(toks, j + 2) ELSE "",
              on |-> IF w > 1 THEN SubSeq(after, 1, w - 1) ELSE after]

\* The column list: "*" alone, or the comma-separated names as written; a
\* name is kept with the mark of whether it includes a ".".
ColumnsOf(toks) ==
    IF toks = <<P("*")>> THEN <<[name |-> "*", dotted |-> FALSE]>>
    ELSE LET runs == SplitComma(toks)
         IN  [i \in 1..Len(runs) |->
                [name |-> Text(runs[i]),
                 dotted |-> \E k \in 1..Len(runs[i]) : runs[i][k].k = "qual"]]

parseSelect(toks) ==
    Let(FirstKw(toks, "FROM"), LAMBDA f :
    IF f < 3 THEN Throw("Invalid SELECT syntax", Null)
    ELSE IF ~StartsWithWord(toks, f + 1) THEN Throw("Invalid FROM clause", Null)
    ELSE Bind(WhereOf(toks), LAMBDA where :
         Return([type |-> "SELECT",
                 columns |-> ColumnsOf(SubSeq(toks, 2, f - 1)),
                 tableName |-> WordAt(toks, f + 1),
                 tableAlias |-> FromAlias(toks, f),
                 join |-> JoinOf(toks),
                 where |-> where.val],
                Null)))

\* One 'column = literal' pair of a SET clause; a pair without '=' makes
\* parseValue(undefined) throw a TypeError.
RECURSIVE SetPairs(_, _, _)
SetPairs(pairs, i, updates) ==
    IF i > Len(pairs) THEN Return(updates, Null)
    ELSE LET eq == FirstOp(pairs[i], "=")
             rest == SubSeq(pairs[i], eq + 1, Len(pairs[i]))
             next == FirstOp(rest, "=")
             val == IF next = 0 THEN rest ELSE SubSeq(rest, 1, next - 1)
         IN  IF eq = 0
             THEN Throw("Cannot read properties of undefined (reading 'trim')", Null)
             ELSE SetPairs(pairs, i + 1,
                           With(updates, Text(SubSeq(pairs[i], 1, eq - 1)), parseValue(val)))

parseUpdate(toks) ==
    IF ~(WholeWord(toks, 2) /\ IsKw(toks, 3, "SET") /\ Len(toks) >= 4)
    THEN Throw("Invalid UPDATE syntax", Null)
    ELSE Let(FirstKw(toks, "WHERE"), LAMBDA w :
         Let(w > 4 /\ w < Len(toks), LAMBDA hasWhere :
         Bind(SetPairs(SplitComma(SubSeq(toks, 4, IF hasWhere THEN w - 1 ELSE Len(toks))),
                       1, EmptyRow), LAMBDA updates :
         Bind(IF hasWhere THEN parseWhereClause(SubSeq(toks, w + 1, Len(toks)))
              ELSE Return(NoWhere, Null), LAMBDA where :
         Return([type |-> "UPDATE",
                 tableName |-> WordAt(toks, 2),
                 updates |-> updates.val,
                 where |-> where.val],
                Null)))))

\* parseDelete with a WHERE text that is no condition taken as no WHERE.
parseDeleteIgnoresBadWhere(toks) ==
    Let(IsKw(toks, 4, "WHERE") /\ Len(toks) > 4, LAMBDA hasWhere :
    IF ~(WholeWord(toks, 3) /\ (Len(toks) = 3 \/ hasWhere))
    THEN Throw("Invalid DELETE syntax", Null)
    ELSE Let(IF hasWhere THEN parseWhereClause(SubSeq(toks, 5, Len(toks)))
             ELSE Return(NoWhere, Null), LAMBDA where :
         Return([type |-> "DELETE", tableName |-> WordAt(toks, 3),
                 where |-> IF where.thrown THEN NoWhere ELSE where.val],
                Null)))

parseDelete(toks) ==
    Let(IsKw(toks, 4, "WHERE") /\ Len(toks) > 4, LAMBDA hasWhere :
    IF ~(WholeWord(toks, 3) /\ (Len(toks) = 3 \/ hasWhere))
    THEN Throw("Invalid DELETE syntax", Null)
    ELSE Bind(IF hasWhere THEN parseWhereClause(SubSeq(toks, 5, Len(toks)))
              ELSE Return(NoWhere, Null), LAMBDA where :
         Return([type |-> "DELETE", tableName |-> WordAt(toks, 3),
                 where |-> where.val],
                Null)))

parseDropTable(toks) ==
    IF ~StartsWithWord(toks, 3) THEN Throw("Invalid DROP TABLE syntax", Null)
    ELSE Return([type |-> "DROP_TABLE", tableName |-> WordAt(toks, 3)], Null)

\* parse: the statement is chosen by its leading keywords.  (The message for
\* an unsupported command carries the first 20 characters of the text; the
\* unsupported texts written here are shorter than that.)
parse(toks) ==
    CASE IsKw(toks, 1, "CREATE") /\ IsKw(toks, 2, "TABLE") -> parseCreateTable(toks)
      [] IsKw(toks, 1, "INSERT") /\ IsKw(toks, 2, "INTO") -> parseInsert(toks)
      [] IsKw(toks, 1, "SELECT") -> parseSelect(toks)
      [] IsKw(toks, 1, "UPDATE") -> parseUpdate(toks)
      [] IsKw(toks, 1, "DELETE") /\ IsKw(toks, 2, "FROM") -> parseDelete(toks)
      [] IsKw(toks, 1, "DROP") /\ IsKw(toks, 2, "TABLE") -> parseDropTable(toks)
      [] OTHER -> Throw("Unsupported SQL command: " \o Text(toks) \o "...", Null)

(***************************************************************************)
(* Database: the table cache, index maintenance, and the results handed to *)
(* the caller.  keys lists the properties the result object has.           *)
(***************************************************************************)
Result(keys, success, rows, count, message, error, row) ==
    [threw |-> FALSE, keys |-> keys, success |-> success, rows |-> rows,
     count |-> count, message |-> message, error |-> error, row |-> row]

Failure(error) == Result({"success", "error"}, FALSE, <<>>, 0, "", error, EmptyRow)

\* What a caller sees of a call that throws.
Threw(error) ==
    [threw |-> TRUE, keys |-> {}, success |-> FALSE, rows |-> <<>>,
     count |-> 0, message |-> "", error |-> error, row |-> EmptyRow]

NoResult == Result({}, FALSE, <<>>, 0, "", "", EmptyRow)

createTableFunc(st, tableName, schema) ==
    Bind(storageCreateTable(st, tableName, schema), LAMBDA created :
    Return(created.val,
           createDefaultIndexes(
               [created.st EXCEPT !.tables = With(created.st.tables, tableName, created.val)],
               tableName, created.val, <<>>).st))

\* val is the metadata the Table object was made with.
getTable(st, tableName) ==
    IF tableName \in DOMAIN st.tables THEN Return(st.tables[tableName], st)
    ELSE Bind(getTableMetadata(st, tableName), LAMBDA loaded :
         Return(loaded.val, [st EXCEPT !.tables = With(st.tables, tableName, loaded.val)]))

RECURSIVE DropAll(_, _, _, _)
DropAll(st, tableName, columns, i) ==
    IF i > Len(columns) THEN st
    ELSE DropAll(dropIndex(st, tableName, columns[i]).st, tableName, columns, i + 1)

\* dropTable with the indexes left in place: only the table is dropped.
dropTableKeepsIndexes(st, tableName) ==
    Bind(getTableMetadata(st, tableName), LAMBDA loaded :
    Bind(storageDropTable(st, tableName), LAMBDA dropped :
    Return(Null, [dropped.st EXCEPT !.tables = Without(dropped.st.tables, tableName)])))

dropTable(st, tableName) ==
    Bind(getTableMetadata(st, tableName), LAMBDA loaded :
    Bind(storageDropTable(DropAll(st, tableName, IndexedColumns(loaded.val), 1), tableName),
         LAMBDA dropped :
    Return(Null, [dropped.st EXCEPT !.tables = Without(dropped.st.tables, tableName)])))

RECURSIVE RebuildAll(_, _, _, _, _)
RebuildAll(st, tableName, columns, rows, i) ==
    IF i > Len(columns) THEN st
    ELSE RebuildAll(rebuildIndex(st, tableName, columns[i], rows).st,
                    tableName, columns, rows, i + 1)

rebuildIndexes(st, tableName) ==
    Bind(getTableMetadata(st, tableName), LAMBDA loaded :
    Bind(loadTableData(st, tableName), LAMBDA rows :
    Return(Null, RebuildAll(st, tableName, IndexedColumns(loaded.val), rows.val, 1))))

(***************************************************************************)
(* QueryExecutor.                                                          *)
(***************************************************************************)
executeCreateTable(st, query) ==
    Bind(createTableFunc(st, query.tableName, query.schema), LAMBDA made :
    Return(Result({"success", "message", "table"}, TRUE, <<>>, 0,
                  "Table '" \o query.tableName \o "' created successfully",
                  "", EmptyRow),
           made.st))

executeInsert(st, query) ==
    Bind(getTable(st, query.tableName), LAMBDA table :
    Bind(insert(table.st, query.tableName, table.val, query.row), LAMBDA row :
    Bind(rebuildIndexes(row.st, query.tableName), LAMBDA rebuilt :
    Return(Result({"success", "message", "row"}, TRUE, <<>>, 0,
                  "Row inserted into '" \o query.tableName \o "'", "", row.val),
           rebuilt.st))))

\* rows[idx] for an index position past the end of the rows is undefined.
AbsentRow == [k \in {"<undefined>"} |-> Undef]

\* rows.filter((row) => evaluateCondition(row, whereClause))
ScanRows(st, rows, whereClause) ==
    IF CondThrows(rows, whereClause) THEN Throw(UnknownOperatorMsg(whereClause), st)
    ELSE Return(FilterSeq(rows, {i \in 1..Len(rows) :
                                   evaluateCondition(rows[i], whereClause) = "T"}, 1),
                st)

\* filterRows with the test of the operator left out: the index is asked for
\* every top-level comparison.
filterRowsAnyOperator(st, rows, whereClause, tableName) ==
    IF whereClause.type = "CMP" /\ whereClause.column # ""
    THEN Bind(lookup(st, tableName, whereClause.column, whereClause.value), LAMBDA indices :
         IF indices.val.found
         THEN Return([i \in 1..Len(indices.val.positions) |->
                         IF indices.val.positions[i] + 1 \in 1..Len(rows)
                         THEN rows[indices.val.positions[i] + 1] ELSE AbsentRow],
                     indices.st)
         ELSE ScanRows(indices.st, rows, whereClause))
    ELSE ScanRows(st, rows, whereClause)

filterRows(st, rows, whereClause, tableName) ==
    IF whereClause.type = "CMP" /\ whereClause.column # "" /\ whereClause.operator = "="
    THEN Bind(lookup(st, tableName, whereClause.column, whereClause.value), LAMBDA indices :
         IF indices.val.found
         THEN Return([i \in 1..Len(indices.val.positions) |->
                         IF indices.val.positions[i] + 1 \in 1..Len(rows)
                         THEN rows[indices.val.positions[i] + 1] ELSE AbsentRow],
                     indices.st)
         ELSE ScanRows(indices.st, rows, whereClause))
    ELSE ScanRows(st, rows, whereClause)

\* The first character of a table name, for the names the model uses.
CharAt0(tableName) ==
    CASE tableName = "users" -> "u"
      [] tableName = "orders" -> "o"
      [] tableName \in {"A", "B", "T"} -> tableName

\* The first 'a.b = c.d' inside the ON text, 0 if there is none.
OnMatch(on) ==
    LET hit(i) == on[i].k = "qual" /\ on[i + 1] = O("=") /\ on[i + 2].k = "qual"
    IN  IF \E i \in 1..(Len(on) - 2) : hit(i)
        THEN CHOOSE i \in 1..(Len(on) - 2) : hit(i) /\ \A j \in 1..(i - 1) : ~hit(j)
        ELSE 0

\* The merged object of a pair: the right table's keys are written last.
Merged(leftName, leftRow, rightName, rightRow) ==
    [key \in {leftName \o "." \o k : k \in DOMAIN leftRow}
              \cup {rightName \o "." \o k : k \in DOMAIN rightRow} |->
        IF \E k \in DOMAIN rightRow : key = rightName \o "." \o k
        THEN rightRow[CHOOSE k \in DOMAIN rightRow : key = rightName \o "." \o k]
        ELSE leftRow[CHOOSE k \in DOMAIN leftRow : key = leftName \o "." \o k]]

\* The nested loop: left-major, then right order.
RECURSIVE JoinLoop(_, _, _, _, _, _, _, _)
JoinLoop(leftName, leftRows, leftJoinCol, rightName, rightRows, rightJoinCol, i, j) ==
    IF i > Len(leftRows) THEN <<>>
    ELSE IF j > Len(rightRows)
    THEN JoinLoop(leftName, leftRows, leftJoinCol, rightName, rightRows, rightJoinCol, i + 1, 1)
    ELSE (IF StrictEq(Get(leftRows[i], leftJoinCol), Get(rightRows[j], rightJoinCol))
          THEN <<Merged(leftName, leftRows[i], rightName, rightRows[j])>>
          ELSE <<>>)
         \o JoinLoop(leftName, leftRows, leftJoinCol, rightName, rightRows, rightJoinCol, i, j + 1)

\* The projection of one merged row: a dotted name is read verbatim; a bare
\* name is read from the first key ending in ".<name>", the left table's keys
\* coming first, and gets no key when no key ends so.
ProjectJoined(row, columns, leftName, rightName) ==
    LET keyOf(col) == IF (leftName \o "." \o col) \in DOMAIN row
                      THEN leftName \o "." \o col ELSE rightName \o "." \o col
        kept == {i \in 1..Len(columns) :
                    columns[i].dotted \/ keyOf(columns[i].name) \in DOMAIN row}
    IN  [name \in {columns[i].name : i \in kept} |->
            IF \E i \in kept : columns[i].name = name /\ columns[i].dotted
            THEN Get(row, name) ELSE row[keyOf(name)]]

\* leftJoinCol with the alias test left out: the side written first is taken.
leftJoinColFirstSide(query, left, right) == left.c

\* The side of the ON clause taken for the left table: the one written with
\* the left alias, else the other one.  A missing alias is the first
\* character of the table name.
leftJoinCol(query, left, right) ==
    IF left.s = (IF query.tableAlias # "" THEN query.tableAlias
                 ELSE CharAt0(query.tableName))
    THEN left.c ELSE right.c

rightJoinCol(query, left, right) ==
    IF right.s = (IF query.join.tableAlias # "" THEN query.join.tableAlias
                  ELSE CharAt0(query.join.tableName))
    THEN right.c ELSE left.c

executeJoin(st, query) ==
    Bind(getTable(st, query.tableName), LAMBDA leftTable :
    Bind(getTable(leftTable.st, query.join.tableName), LAMBDA rightTable :
    Bind(getAll(rightTable.st, query.tableName), LAMBDA leftRows :
    Bind(getAll(rightTable.st, query.join.tableName), LAMBDA rightRows :
    Let(OnMatch(query.join.on), LAMBDA m :
    IF m = 0 THEN Throw("Invalid JOIN ON clause", rightTable.st)
    ELSE Let(JoinLoop(query.tableName, leftRows.val,
                      leftJoinCol(query, query.join.on[m], query.join.on[m + 2]),
                      query.join.tableName, rightRows.val,
                      rightJoinCol(query, query.join.on[m], query.join.on[m + 2]), 1, 1),
             LAMBDA joinedRows :
         Let(IF query.columns[1].name # "*"
             THEN [i \in 1..Len(joinedRows) |->
                     ProjectJoined(joinedRows[i], query.columns,
                                   query.tableName, query.join.tableName)]
             ELSE joinedRows, LAMBDA result :
         Return(Result({"success", "rows", "count"}, TRUE, result, Len(result),
                       "", "", EmptyRow),
                rightTable.st))))))))

\* The projection of one row on the listed columns: row[col] for each.
ProjectRow(row, columns) ==
    [name \in {columns[k].name : k \in 1..Len(columns)} |-> Get(row, name)]

executeSelect(st, query) ==
    IF query.join # NoJoin THEN executeJoin(st, query)
    ELSE Bind(getTable(st, query.tableName), LAMBDA table :
         Bind(getAll(table.st, query.tableName), LAMBDA all :
         Bind(IF query.where # NoWhere
              THEN filterRows(table.st, all.val, query.where, query.tableName)
              ELSE all, LAMBDA filtered :
         IF query.columns[1].name = "*"
         THEN Return(Result({"success", "rows", "count"}, TRUE, filtered.val,
                            Len(filtered.val), "", "", EmptyRow),
                     filtered.st)
         ELSE IF \E i \in 1..Len(filtered.val) : filtered.val[i] = AbsentRow
         THEN Throw("Cannot read properties of undefined (reading '"
                    \o query.columns[1].name \o "')", filtered.st)
         ELSE Return(Result({"success", "rows", "count"}, TRUE,
                            [i \in 1..Len(filtered.val) |->
                                ProjectRow(filtered.val[i], query.columns)],
                            Len(filtered.val), "", "", EmptyRow),
                     filtered.st))))

\* executeUpdate with the rebuild of the indexes left out.
executeUpdateNoRebuild(st, query) ==
    Bind(getTable(st, query.tableName), LAMBDA table :
    Bind(update(table.st, query.tableName, query.updates, query.where), LAMBDA count :
    Return(Result({"success", "message", "count"}, TRUE, <<>>, count.val,
                  "Updated " \o NumToString(count.val) \o " row(s)", "", EmptyRow),
           count.st)))

executeUpdate(st, query) ==
    Bind(getTable(st, query.tableName), LAMBDA table :
    Bind(update(table.st, query.tableName, query.updates, query.where), LAMBDA count :
    Bind(rebuildIndexes(count.st, query.tableName), LAMBDA rebuilt :
    Return(Result({"success", "message", "count"}, TRUE, <<>>, count.val,
                  "Updated " \o NumToString(count.val) \o " row(s)", "", EmptyRow),
           rebuilt.st))))

\* executeDelete with the WHERE of the statement left out: every row goes.
executeDeleteNoWhere(st, query) ==
    Bind(getTable(st, query.tableName), LAMBDA table :
    Bind(deleteRows(table.st, query.tableName, NoWhere), LAMBDA count :
    Bind(rebuildIndexes(count.st, query.tableName), LAMBDA rebuilt :
    Return(Result({"success", "message", "count"}, TRUE, <<>>, count.val,
                  "Deleted " \o NumToString(count.val) \o " row(s)", "", EmptyRow),
           rebuilt.st))))

executeDelete(st, query) ==
    Bind(getTable(st, query.tableName), LAMBDA table :
    Bind(deleteRows(table.st, query.tableName, query.where), LAMBDA count :
    Bind(rebuildIndexes(count.st, query.tableName), LAMBDA rebuilt :
    Return(Result({"success", "message", "count"}, TRUE, <<>>, count.val,
                  "Deleted " \o NumToString(count.val) \o " row(s)", "", EmptyRow),
           rebuilt.st))))

\* executeDropTable with the result shaped like that of a DELETE: a count of
\* 0 next to the message.
executeDropTableWithCount(st, query) ==
    Bind(dropTable(st, query.tableName), LAMBDA dropped :
    Return(Result({"success", "message", "count"}, TRUE, <<>>, 0,
                  "Table '" \o query.tableName \o "' dropped successfully",
                  "", EmptyRow),
           dropped.st))

executeDropTable(st, query) ==
    Bind(dropTable(st, query.tableName), LAMBDA dropped :
    Return(Result({"success", "message"}, TRUE, <<>>, 0,
                  "Table '" \o query.tableName \o "' dropped successfully",
                  "", EmptyRow),
           dropped.st))

\* execute with a catch of its own: an Error is handed back as a failure result.
executeSwallowsErrors(st, parsedQuery) ==
    Let(CASE parsedQuery.type = "CREATE_TABLE" -> executeCreateTable(st, parsedQuery)
          [] parsedQuery.type = "INSERT" -> executeInsert(st, parsedQuery)
          [] parsedQuery.type = "SELECT" -> executeSelect(st, parsedQuery)
          [] parsedQuery.type = "UPDATE" -> executeUpdate(st, parsedQuery)
          [] parsedQuery.type = "DELETE" -> executeDelete(st, parsedQuery)
          [] parsedQuery.type = "DROP_TABLE" -> executeDropTable(st, parsedQuery)
          [] OTHER -> Throw("Unknown query type: " \o parsedQuery.type, st),
        LAMBDA ran :
    IF ran.thrown THEN Return(Failure(ran.msg), ran.st) ELSE ran)

execute(st, parsedQuery) ==
    CASE parsedQuery.type = "CREATE_TABLE" -> executeCreateTable(st, parsedQuery)
      [] parsedQuery.type = "INSERT" -> executeInsert(st, parsedQuery)
      [] parsedQuery.type = "SELECT" -> executeSelect(st, parsedQuery)
      [] parsedQuery.type = "UPDATE" -> executeUpdate(st, parsedQuery)
      [] parsedQuery.type = "DELETE" -> executeDelete(st, parsedQuery)
      [] parsedQuery.type = "DROP_TABLE" -> executeDropTable(st, parsedQuery)
      [] OTHER -> Throw("Unknown query type: " \o parsedQuery.type, st)

\* parser.parse(sql) then executor.execute(parsedQuery), with no try around it.
Run(st, sql) ==
    Let(parse(sql), LAMBDA parsedQuery :
    IF parsedQuery.thrown THEN Throw(parsedQuery.msg, st)
    ELSE execute(st, parsedQuery.val))

\* query with the try / catch left out.
queryWithoutCatch(st, sql) == Run(st, sql)

\* Database.query: val is the result object.
query(st, sql) ==
    Let(Run(st, sql), LAMBDA ran :
    IF ran.thrown THEN Return(Failure(ran.msg), ran.st) ELSE ran)

(***************************************************************************)
(* The calls a client makes.  Spec: one Database instance working on a     *)
(* data directory that starts empty, with table T created under one of two *)
(* schemas, and the process restarted at any time.                         *)
(***************************************************************************)
\* The most rows table T is grown to.
MaxRows == 2

\* CREATE TABLE T (id INTEGER PRIMARY KEY, u TEXT UNIQUE)
\* CREATE TABLE T (id TEXT PRIMARY KEY, u INTEGER NOT NULL)
CreateTexts ==
    { <<W("CREATE"), W("TABLE"), W("T"), P("("),
        W("id"), W("INTEGER"), W("PRIMARY"), W("KEY"), P(","),
        W("u"), W("TEXT"), W("UNIQUE"), P(")")>>,
      <<W("CREATE"), W("TABLE"), W("T"), P("("),
        W("id"), W("TEXT"), W("PRIMARY"), W("KEY"), P(","),
        W("u"), W("INTEGER"), W("NOT"), W("NULL"), P(")")>> }

\* The literals written for the key: 5, 7, '5', true, null.
KeyLits == {N(5), N(7), S("5"), W("true"), W("null")}
\* The literals written for the other column: 5, '5', null.
FieldLits == {N(5), S("5"), W("null")}

\* INSERT INTO T (id, u) VALUES (k, v)
InsertBoth(k, v) ==
    <<W("INSERT"), W("INTO"), W("T"), P("("), W("id"), P(","), W("u"), P(")"),
      W("VALUES"), P("("), k, P(","), v, P(")")>>

\* INSERT INTO T (id) VALUES (k)
InsertKey(k) ==
    <<W("INSERT"), W("INTO"), W("T"), P("("), W("id"), P(")"),
      W("VALUES"), P("("), k, P(")")>>

InsertTexts ==
    { InsertBoth(k, v) : k \in KeyLits \ {W("true")}, v \in FieldLits }
    \cup { InsertKey(k) : k \in {N(5), S("5"), W("true")} }

\* WHERE c = v
WhereEq(c, v) == <<W("WHERE"), W(c), O("="), v>>

\* The equality clauses written on the indexed columns.
EqTexts ==
    { WhereEq("id", k) : k \in KeyLits } \cup { WhereEq("u", v) : v \in FieldLits }

\* SELECT * FROM T [WHERE ...]
SelectAll(w) == <<W("SELECT"), P("*"), W("FROM"), W("T")>> \o w

\* SELECT * with no clause, with each equality clause, with a range, an AND
\* and an OR; SELECT id with no clause and with one equality clause.
SelectTexts ==
    { SelectAll(w) : w \in {<<>>} \cup EqTexts }
    \cup { SelectAll(<<W("WHERE"), W("id"), O(">"), N(5)>>),
            SelectAll(<<W("WHERE"), W("id"), O("="), N(5), W("AND"), W("u"), O("="), S("5")>>),
            SelectAll(<<W("WHERE"), W("id"), O("="), N(5), W("OR"), W("id"), O("="), N(7)>>) }
    \cup { <<W("SELECT"), W("id"), W("FROM"), W("T")>> \o w : w \in {<<>>, WhereEq("id", N(5))} }

\* UPDATE T SET id = 5 [WHERE ...]  and  UPDATE T SET id = null [WHERE ...]
UpdateTexts ==
    { <<W("UPDATE"), W("T"), W("SET"), W("id"), O("="), v>> \o w :
        v \in {N(5), W("null")}, w \in {<<>>, WhereEq("id", N(7))} }

\* DELETE FROM T [WHERE ...]
DeleteAll == <<W("DELETE"), W("FROM"), W("T")>>

DeleteTexts ==
    { DeleteAll \o w : w \in {<<>>, WhereEq("id", N(5)), WhereEq("u", W("null"))}
                             \cup {<<W("WHERE"), W("id"), O(">"), N(5)>>} }

DropTexts == { <<W("DROP"), W("TABLE"), W("T")>> }

\* Texts no statement shape matches.
BadTexts ==
    { <<W("EXPLAIN"), W("T")>>,
      <<W("SELECT"), P("*"), W("T")>>,
      <<W("DELETE"), W("FROM"), W("T"), W("WHERE"), W("id")>>,
      <<W("INSERT"), W("INTO"), W("T"), W("VALUES"), P("("), N(5), P(")")>> }

Init ==
    /\ meta = EmptyMap
    /\ data = EmptyMap
    /\ idxDisk = EmptyMap
    /\ idxCache = EmptyMap
    /\ tables = EmptyMap
    /\ lastQuery = [op |-> "none", sql |-> <<>>]
    /\ lastResult = NoResult
    /\ peer = [idxCache |-> EmptyMap, tables |-> EmptyMap, pc |-> "idle",
               sql |-> <<>>, rows |-> <<>>, during |-> <<>>, result |-> NoResult]

\* The call ends: the files and the maps are as it left them, and the caller
\* has its value or the Error it throws.
Commit(outcome, op, sql) ==
    /\ meta' = outcome.st.meta
    /\ data' = outcome.st.data
    /\ idxDisk' = outcome.st.idxDisk
    /\ idxCache' = outcome.st.idxCache
    /\ tables' = outcome.st.tables
    /\ lastQuery' = [op |-> op, sql |-> sql]
    /\ lastResult' = IF outcome.thrown THEN Threw(outcome.msg) ELSE outcome.val

\* db.query(sql)
Query(sql) ==
    /\ Commit(query(St, sql), "query", sql)
    /\ UNCHANGED peer

\* The rows a table holds are bounded: a full table takes no INSERT.
Room(tableName, max) ==
    IF tableName \in DOMAIN data THEN Len(data[tableName]) < max ELSE TRUE

CreateTable ==
    \E sql \in CreateTexts :
        /\ Query(sql)

Insert ==
    \E sql \in InsertTexts :
        /\ Room("T", MaxRows)
        /\ Query(sql)

Select ==
    \E sql \in SelectTexts :
        /\ Query(sql)

Update ==
    \E sql \in UpdateTexts :
        /\ Query(sql)

Delete ==
    \E sql \in DeleteTexts :
        /\ Query(sql)

DropTable ==
    \E sql \in DropTexts :
        /\ Query(sql)

BadQuery ==
    \E sql \in BadTexts :
        /\ Query(sql)

\* db.rebuildIndexes("T"); the call returns undefined.
RebuildIndexes ==
    /\ Commit(Let(rebuildIndexes(St, "T"), LAMBDA rebuilt :
                  IF rebuilt.thrown THEN rebuilt ELSE Return(NoResult, rebuilt.st)),
              "rebuildIndexes", <<W("T")>>)
    /\ UNCHANGED peer

\* The process ends and a new Database is constructed on the same directory.
Restart ==
    /\ idxCache' = EmptyMap
    /\ tables' = EmptyMap
    /\ lastQuery' = [op |-> "restart", sql |-> <<>>]
    /\ lastResult' = NoResult
    /\ UNCHANGED <<meta, data, idxDisk, peer>>

Next ==
    \/ CreateTable
    \/ Insert
    \/ Select
    \/ Update
    \/ Delete
    \/ DropTable
    \/ BadQuery
    \/ RebuildIndexes
    \/ Restart

Spec == Init /\ [][Next]_vars

(***************************************************************************)
(* SpecJoin: the same Database with the tables A (id) and B (a_id, x) of   *)
(* the join example, and the join statements written on them.              *)
(***************************************************************************)
\* The most rows each of the tables A and B is grown to.
MaxJoinRows == 2

\* CREATE TABLE A (id INTEGER PRIMARY KEY)
\* CREATE TABLE B (a_id INTEGER, x TEXT)
CreateJoinTexts ==
    { <<W("CREATE"), W("TABLE"), W("A"), P("("),
        W("id"), W("INTEGER"), W("PRIMARY"), W("KEY"), P(")")>>,
      <<W("CREATE"), W("TABLE"), W("B"), P("("),
        W("a_id"), W("INTEGER"), P(","), W("x"), W("TEXT"), P(")")>> }

\* INSERT INTO A (id) VALUES (k)  and  INSERT INTO B (a_id, x) VALUES (k, v)
InsertJoinTexts(tableName) ==
    IF tableName = "A"
    THEN { <<W("INSERT"), W("INTO"), W("A"), P("("), W("id"), P(")"),
             W("VALUES"), P("("), k, P(")")>> : k \in {N(1), N(2)} }
    ELSE { <<W("INSERT"), W("INTO"), W("B"), P("("), W("a_id"), P(","), W("x"), P(")"),
             W("VALUES"), P("("), k, P(","), v, P(")")>> :
             k \in {N(1), N(9), W("null")}, v \in {S("p"), S("q")} }

\* SELECT * FROM A JOIN B ON A.id = B.a_id
JoinPlain ==
    <<W("SELECT"), P("*"), W("FROM"), W("A"), W("JOIN"), W("B"), W("ON"),
      Q("A", "id"), O("="), Q("B", "a_id")>>

\* SELECT * FROM <left> l JOIN <right> r ON <first> = <second>
JoinOn(left, right, first, second) ==
    <<W("SELECT"), P("*"), W("FROM"), W(left), W("l"), W("JOIN"), W(right), W("r"), W("ON"),
      first, O("="), second>>

\* ... FROM A l JOIN B r ON l.id = r.a_id  and  ... ON r.a_id = l.id
AliasedJoinTexts ==
    { JoinOn("A", "B", Q("l", "id"), Q("r", "a_id")),
      JoinOn("A", "B", Q("r", "a_id"), Q("l", "id")) }

\* ... FROM B l JOIN B r ON l.a_id = r.a_id
SelfJoinTexts == { JoinOn("B", "B", Q("l", "a_id"), Q("r", "a_id")) }

\* ... FROM A l JOIN B r ON l.id = r.a_id WHERE B.x = 'q'  and  ... WHERE r.x = 'q'
JoinWhereTexts ==
    { JoinOn("A", "B", Q("l", "id"), Q("r", "a_id")) \o <<W("WHERE"), Q(t, "x"), O("="), S("q")>> :
        t \in {"B", "r"} }

\* SELECT <columns> FROM A l JOIN B r ON l.id = r.a_id  with the columns
\* l.id, r.x  (qualified by the aliases, as in Test 2 of the join test),
\* A.id, B.x  (qualified by the table names)  and  x, id, zz  (bare).
JoinColumnTexts ==
    { <<W("SELECT")>> \o columns
      \o SubSeq(JoinOn("A", "B", Q("l", "id"), Q("r", "a_id")), 3, 12) :
        columns \in { <<Q("l", "id"), P(","), Q("r", "x")>>,
                      <<Q("A", "id"), P(","), Q("B", "x")>>,
                      <<W("x"), P(","), W("id"), P(","), W("zz")>> } }

\* ... FROM A l JOIN B r ON l.zz = r.zz : neither table has a column zz.
AbsentColumnJoinTexts == { JoinOn("A", "B", Q("l", "zz"), Q("r", "zz")) }

JoinTexts ==
    {JoinPlain} \cup AliasedJoinTexts \cup SelfJoinTexts \cup JoinWhereTexts
    \cup JoinColumnTexts \cup AbsentColumnJoinTexts

CreateJoinTable ==
    \E sql \in CreateJoinTexts :
        /\ Query(sql)

InsertJoin ==
    \E tableName \in {"A", "B"} :
        \E sql \in InsertJoinTexts(tableName) :
            /\ Room(tableName, MaxJoinRows)
            /\ Query(sql)

SelectJoin ==
    \E sql \in JoinTexts :
        /\ Query(sql)

NextJoin ==
    \/ CreateJoinTable
    \/ InsertJoin
    \/ SelectJoin
    \/ Restart

SpecJoin == Init /\ [][NextJoin]_vars

(***************************************************************************)
(* SpecShared: two Database instances, each in a process of its own, work  *)
(* on one data directory.  The files are shared; each instance has its own *)
(* IndexManager.indexes and its own tables Map.  A statement of the first  *)
(* instance runs from start to end in one step.  A mutating statement of   *)
(* the second takes two: it runs up to the loadTableData of update,        *)
(* deleteRows or insertRow, and later goes on from the rows it loaded to   *)
(* saveTableData and the rebuild of the indexes; the other process may run *)
(* in between, since nothing locks the files.                              *)
(***************************************************************************)
\* The most rows table T is grown to under SpecShared.
MaxSharedRows == 2

\* CREATE TABLE T (id INTEGER PRIMARY KEY, u TEXT UNIQUE)
SharedCreateText ==
    <<W("CREATE"), W("TABLE"), W("T"), P("("),
      W("id"), W("INTEGER"), W("PRIMARY"), W("KEY"), P(","),
      W("u"), W("TEXT"), W("UNIQUE"), P(")")>>

\* UPDATE T SET id = 7
UpdateAllText == <<W("UPDATE"), W("T"), W("SET"), W("id"), O("="), N(7)>>

\* The statements of the first instance: INSERT INTO T (id) VALUES (5 | 7).
SharedInsertTexts == {InsertKey(N(5)), InsertKey(N(7))}

\* SELECT * FROM T WHERE id = 5 | 7
SharedSelectTexts == {SelectAll(WhereEq("id", N(5))), SelectAll(WhereEq("id", N(7)))}

\* The statements of the second instance: an INSERT, an UPDATE of every row
\* and a DELETE of every row.
PeerTexts == {InsertKey(N(5)), UpdateAllText, DeleteAll}

\* What the second instance works on: the shared files, its own caches.
PeerSt == [meta |-> meta, data |-> data, idxDisk |-> idxDisk,
           idxCache |-> peer.idxCache, tables |-> peer.tables]

\* The statement made to load the rows anew when it goes on: it works on the
\* rows file as it is now.
queryFromCurrentRows(st, sql, rows) == query(st, sql)

\* query() going on from the point where update / deleteRows / insertRow has
\* loaded rows: what the statement checks and writes is computed from those
\* rows, saveTableData writes the result over the rows file as it is now, and
\* the indexes are rebuilt from the file just written.  A statement that
\* throws has written nothing.
queryFromLoaded(st, sql, rows) ==
    Let(query([st EXCEPT !.data = With(st.data, parse(sql).val.tableName, rows)], sql),
        LAMBDA ran :
    IF ran.val.success THEN ran
    ELSE Return(ran.val, [ran.st EXCEPT !.data = st.data]))

\* The first instance creates T.
SharedCreate ==
    /\ Commit(query(St, SharedCreateText), "query", SharedCreateText)
    /\ UNCHANGED peer

\* The first instance inserts a row; during records a statement it completed
\* with success while the second instance was between its load and its save.
SharedInsert ==
    \E sql \in SharedInsertTexts :
        /\ Room("T", MaxSharedRows)
        /\ Commit(query(St, sql), "query", sql)
        /\ peer' = [peer EXCEPT !.during = IF peer.pc = "loaded" /\ lastResult'.success
                                           THEN sql ELSE @]

SharedSelect ==
    \E sql \in SharedSelectTexts :
        /\ Query(sql)

\* The second instance starts a statement and gets as far as having loaded
\* the rows of T.
PeerLoad ==
    \E sql \in PeerTexts :
        /\ peer.pc = "idle"
        /\ tableExists(PeerSt, "T")
        /\ IF sql = InsertKey(N(5)) THEN Room("T", MaxSharedRows) ELSE TRUE
        /\ peer' = [peer EXCEPT !.pc = "loaded", !.sql = sql,
                                !.rows = loadTableData(PeerSt, "T").val,
                                !.during = <<>>, !.result = NoResult]
        /\ UNCHANGED <<meta, data, idxDisk, idxCache, tables, lastQuery, lastResult>>

\* The second instance goes on from the rows it loaded to the end of its
\* statement.
PeerSave ==
    /\ peer.pc = "loaded"
    /\ Let(queryFromLoaded(PeerSt, peer.sql, peer.rows), LAMBDA ran :
           /\ meta' = ran.st.meta
           /\ data' = ran.st.data
           /\ idxDisk' = ran.st.idxDisk
           /\ peer' = [peer EXCEPT !.pc = "idle", !.idxCache = ran.st.idxCache,
                                   !.tables = ran.st.tables, !.result = ran.val])
    /\ UNCHANGED <<idxCache, tables, lastQuery, lastResult>>

NextShared ==
    \/ SharedCreate
    \/ SharedInsert
    \/ SharedSelect
    \/ PeerLoad
    \/ PeerSave

SpecShared == Init /\ [][NextShared]_vars

(***************************************************************************)
(* SpecSchema: the same Database with table T created from CREATE TABLE    *)
(* texts of one or two columns, a and b, written with any of the           *)
(* constraint keywords PRIMARY KEY, UNIQUE and NOT NULL.                   *)
(***************************************************************************)
\* The most rows table T is grown to under SpecSchema.
MaxSchemaRows == 2

\* The constraints written after a column's type, in the order PRIMARY KEY,
\* UNIQUE, NOT NULL, each one there or not.
ConstraintTexts ==
    { pk \o uq \o nn : pk \in {<<>>, <<W("PRIMARY"), W("KEY")>>},
                       uq \in {<<>>, <<W("UNIQUE")>>},
                       nn \in {<<>>, <<W("NOT"), W("NULL")>>} }

\* The column definitions written: (a INTEGER ...) and (a INTEGER ..., b INTEGER ...),
\* b without NOT NULL.
SchemaDefs ==
    { << <<W("a"), W("INTEGER")>> \o ca >> : ca \in ConstraintTexts }
    \cup { << <<W("a"), W("INTEGER")>> \o ca, <<W("b"), W("INTEGER")>> \o cb >> :
             ca \in ConstraintTexts,
             cb \in {text \in ConstraintTexts : \A n \in 1..Len(text) : text[n] # W("NOT")} }

\* CREATE TABLE T (<definition>, <definition>)
SchemaText(defs) ==
    <<W("CREATE"), W("TABLE"), W("T"), P("(")>>
    \o defs[1] \o (IF Len(defs) > 1 THEN <<P(",")>> \o defs[2] ELSE <<>>) \o <<P(")")>>

SchemaTexts == { SchemaText(defs) : defs \in SchemaDefs }

\* INSERT INTO T (a, b) VALUES (1, 1 | 2)
SchemaInsertTexts ==
    { <<W("INSERT"), W("INTO"), W("T"), P("("), W("a"), P(","), W("b"), P(")"),
        W("VALUES"), P("("), N(1), P(","), v, P(")")>> : v \in {N(1), N(2)} }

SchemaCreate ==
    \E sql \in SchemaTexts :
        /\ Query(sql)

SchemaInsert ==
    \E sql \in SchemaInsertTexts :
        /\ Room("T", MaxSchemaRows)
        /\ Query(sql)

SchemaDrop ==
    \E sql \in DropTexts :
        /\ Query(sql)

NextSchema ==
    \/ SchemaCreate
    \/ SchemaInsert
    \/ SchemaDrop

SpecSchema == Init /\ [][NextSchema]_vars

(***************************************************************************)
(* SpecNames: the same Database with two tables whose names and key        *)
(* columns are written with underscores: a_b (c INTEGER PRIMARY KEY) and   *)
(* a (b_c INTEGER PRIMARY KEY).                                            *)
(***************************************************************************)
\* The most rows each of the tables a_b and a is grown to.
MaxNameRows == 2

\* The (table, column) pairs that have an index.
NamePairs == {[t |-> "a_b", c |-> "c"], [t |-> "a", c |-> "b_c"]}

\* CREATE TABLE <t> (<c> INTEGER PRIMARY KEY)
NameCreateText(pair) ==
    <<W("CREATE"), W("TABLE"), W(pair.t), P("("),
      W(pair.c), W("INTEGER"), W("PRIMARY"), W("KEY"), P(")")>>

\* INSERT INTO <t> (<c>) VALUES (v)
NameInsertText(pair, v) ==
    <<W("INSERT"), W("INTO"), W(pair.t), P("("), W(pair.c), P(")"),
      W("VALUES"), P("("), N(v), P(")")>>

\* SELECT * FROM <t> WHERE <c> = v
NameSelectText(pair, v) ==
    <<W("SELECT"), P("*"), W("FROM"), W(pair.t), W("WHERE"), W(pair.c), O("="), N(v)>>

\* DROP TABLE <t>
NameDropText(pair) == <<W("DROP"), W("TABLE"), W(pair.t)>>

NameCreate ==
    \E pair \in NamePairs :
        /\ Query(NameCreateText(pair))

NameInsert ==
    \E pair \in NamePairs :
        \E v \in {1, 2} :
            /\ Room(pair.t, MaxNameRows)
            /\ Query(NameInsertText(pair, v))

NameSelect ==
    \E pair \in NamePairs :
        \E v \in {1, 2} :
            /\ Query(NameSelectText(pair, v))

NameDrop ==
    \E pair \in NamePairs :
        /\ Query(NameDropText(pair))

NextNames ==
    \/ NameCreate
    \/ NameInsert
    \/ NameSelect
    \/ NameDrop
    \/ Restart

SpecNames == Init /\ [][NextNames]_vars

(***************************************************************************)
(* The properties checked.                                                 *)
(***************************************************************************)
\* The rows of a result, as a set.
RowSet(rows) == {rows[i] : i \in 1..Len(rows)}

\* The row an INSERT has just stored: the last one of the table.
LastRow(rows) == rows[Len(rows)]

\* The INSERT statements of Spec that write the literal k for the key.
InsertsOfKey(k) == {InsertKey(k)} \cup {InsertBoth(k, v) : v \in FieldLits}

\* C1 (round trip): after query() has executed an INSERT with success, a
\* SELECT * with WHERE id = <the literal the INSERT wrote for the key> returns
\* exactly one row, the row as it was stored.
C1_RoundTrip ==
    [][\A k \in KeyLits :
          (lastQuery'.op = "query" /\ lastQuery'.sql \in (InsertsOfKey(k) \cap InsertTexts)
           /\ lastResult'.success)
          => Let(query(St', SelectAll(WhereEq("id", k))).val, LAMBDA found :
                 /\ found.success
                 /\ found.count = 1
                 /\ found.rows = <<LastRow(data'["T"])>>)]_vars

\* The key value an INSERT text asks to store in table T, after coercion.
CoercedKey(st, sql) ==
    prepareRow(getTable(st, "T").val, parseInsert(sql).val.row)[getTable(st, "T").val.primaryKey]

\* An INSERT whose coerced key value is the key value of a row already stored.
RepeatsKey(st, sql) ==
    /\ tableExists(st, "T")
    /\ \E i \in 1..Len(st.data["T"]) :
          Get(st.data["T"][i], getTable(st, "T").val.primaryKey) = CoercedKey(st, sql)

\* The message of the duplicate-key error for an INSERT text.
DuplicateKeyMsg(st, sql) ==
    "Duplicate primary key value: " \o ToStringJS(CoercedKey(st, sql)).s

\* What validateRow says of the row an INSERT text asks to store.
RowCheck(st, sql) ==
    validateRow(st, getTable(st, "T").val,
                prepareRow(getTable(st, "T").val, parseInsert(sql).val.row))

\* C2 (uniqueness on insert, as the code has it): an INSERT whose coerced key
\* value equals the key value of a stored row fails, with the validation
\* error when validateRow rejects the row and with the duplicate-key error
\* otherwise, and leaves the stored rows and every index unchanged.
C2_DuplicateInsertRejected ==
    [][\A sql \in InsertTexts :
          (lastQuery' = [op |-> "query", sql |-> sql] /\ RepeatsKey(St, sql))
          => /\ ~lastResult'.threw
             /\ ~lastResult'.success
             /\ lastResult'.error = IF RowCheck(St, sql).thrown
                                    THEN RowCheck(St, sql).msg
                                    ELSE DuplicateKeyMsg(St, sql)
             /\ data' = data
             /\ idxDisk' = idxDisk
             /\ idxCache' = idxCache]_vars

\* C2 as stated: such an INSERT always fails with the duplicate-key error and
\* leaves the stored rows and every index unchanged.
C2_DuplicateKeyErrorAlways ==
    [][\A sql \in InsertTexts :
          (lastQuery' = [op |-> "query", sql |-> sql] /\ RepeatsKey(St, sql))
          => /\ ~lastResult'.success
             /\ lastResult'.error = DuplicateKeyMsg(St, sql)
             /\ data' = data
             /\ idxDisk' = idxDisk
             /\ idxCache' = idxCache]_vars

\* A repeated key was refused with the duplicate-key error.
C2_Witness ==
    /\ lastQuery.op = "query"
    /\ lastQuery.sql \in InsertTexts
    /\ RepeatsKey(St, lastQuery.sql)
    /\ lastResult.error = "Duplicate primary key value: 5"

\* C3 (index / scan equivalence): a SELECT * whose WHERE is c = v on an
\* indexed column c returns the same set of rows as the scan that evaluates
\* c = v with evaluateCondition on every stored row.
C3_IndexScanEquivalent ==
    \A w \in EqTexts :
        (/\ lastQuery = [op |-> "query", sql |-> SelectAll(w)]
         /\ tableExists(St, "T")
         /\ \E i \in 1..Len(IndexedColumns(meta["T"])) : IndexedColumns(meta["T"])[i] = w[2].s)
        => /\ lastResult.success
           /\ RowSet(lastResult.rows)
              = RowSet(ScanRows(St, data["T"], parseWhereClause(Tail(w)).val).val)

\* The pairs (i, j) of a left row and a right row whose join columns hold
\* equal values, left-major then in right order.
RECURSIVE MatchingPairs(_, _, _, _, _, _)
MatchingPairs(leftRows, leftCol, rightRows, rightCol, i, j) ==
    IF i > Len(leftRows) THEN <<>>
    ELSE IF j > Len(rightRows)
    THEN MatchingPairs(leftRows, leftCol, rightRows, rightCol, i + 1, 1)
    ELSE (IF leftRows[i][leftCol] = rightRows[j][rightCol] THEN <<(<<i, j>>)>> ELSE <<>>)
         \o MatchingPairs(leftRows, leftCol, rightRows, rightCol, i, j + 1)

\* row is the merged row of leftRow and rightRow: every left field under
\* '<leftName>.<field>', every right field under '<rightName>.<field>', and
\* nothing else.
IsMergedRow(row, leftName, leftRow, rightName, rightRow) ==
    /\ DOMAIN row = {leftName \o "." \o f : f \in DOMAIN leftRow}
                    \cup {rightName \o "." \o f : f \in DOMAIN rightRow}
    /\ \A f \in DOMAIN leftRow : row[leftName \o "." \o f] = leftRow[f]
    /\ \A f \in DOMAIN rightRow : row[rightName \o "." \o f] = rightRow[f]

\* rows are the merged rows of the matching pairs, in the order of the pairs.
IsJoinOf(rows, leftName, leftCol, rightName, rightCol) ==
    Let(MatchingPairs(data[leftName], leftCol, data[rightName], rightCol, 1, 1), LAMBDA pairs :
        /\ Len(rows) = Len(pairs)
        /\ \A k \in 1..Len(pairs) :
              IsMergedRow(rows[k], leftName, data[leftName][pairs[k][1]],
                          rightName, data[rightName][pairs[k][2]]))

\* C4 (join without aliases): SELECT * FROM A JOIN B ON A.id = B.a_id returns
\* one merged row for each pair of an A row and a B row with A.id = B.a_id,
\* and no other row.
C4_JoinWithoutAliases ==
    (/\ lastQuery = [op |-> "query", sql |-> JoinPlain]
     /\ tableExists(St, "A")
     /\ tableExists(St, "B"))
    => /\ lastResult.success
       /\ Let(MatchingPairs(data["A"], "id", data["B"], "a_id", 1, 1), LAMBDA pairs :
              /\ Len(lastResult.rows) = Len(pairs)
              /\ \A k \in 1..Len(pairs) :
                    \E n \in 1..Len(lastResult.rows) :
                        IsMergedRow(lastResult.rows[n], "A", data["A"][pairs[k][1]],
                                    "B", data["B"][pairs[k][2]]))

\* C5 (WHERE on a join): a SELECT with a JOIN and the clause WHERE x = 'q' on
\* the right table returns only merged rows whose B.x is 'q'.
C5_JoinWhereFilters ==
    (lastQuery.op = "query" /\ lastQuery.sql \in JoinWhereTexts /\ lastResult.success)
    => \A n \in 1..Len(lastResult.rows) :
          evaluateCondition(lastResult.rows[n], Cmp("B.x", "=", StrV("q"))) = "T"

C7_RebuildIdempotent ==
    (lastQuery.op = "rebuildIndexes" /\ ~lastResult.threw)
    => \A i \in 1..Len(IndexedColumns(meta["T"])) :
          Let(rebuildIndex(St, "T", IndexedColumns(meta["T"])[i], data["T"]), LAMBDA again :
              /\ again.st.idxDisk = idxDisk
              /\ again.st.idxCache = idxCache
              /\ again.val = idxCache[CacheKey("T", IndexedColumns(meta["T"])[i])])

\* The indexes of a table with two rows were rebuilt.
C7_Witness ==
    /\ lastQuery.op = "rebuildIndexes"
    /\ ~lastResult.threw
    /\ Len(data["T"]) = 2
    /\ DOMAIN idxCache[CacheKey("T", "id")] # {}

\* C8 (delete all): DELETE FROM T on an existing table succeeds, counts the
\* rows that were stored, leaves no row and the metadata as it was, and a
\* SELECT * FROM T after it succeeds with no rows.
C8_DeleteAll ==
    [][(lastQuery' = [op |-> "query", sql |-> DeleteAll] /\ tableExists(St, "T"))
       => /\ lastResult'.success
          /\ lastResult'.count = Len(data["T"])
          /\ data'["T"] = <<>>
          /\ meta' = meta
          /\ Let(query(St', SelectAll(<<>>)).val, LAMBDA found :
                 /\ found.success
                 /\ found.rows = <<>>
                 /\ found.count = 0)]_vars

\* DELETE FROM T removed two rows.
C8_Witness ==
    /\ lastQuery = [op |-> "query", sql |-> DeleteAll]
    /\ lastResult.success
    /\ lastResult.count = 2
    /\ data["T"] = <<>>

\* v is a value of the declared type.
HasType(v, type) ==
    CASE TypeUpper(type) \in {"INTEGER", "INT"} -> v.t = "int"
      [] TypeUpper(type) \in {"TEXT", "VARCHAR"} -> v.t = "str"
      [] TypeUpper(type) \in {"BOOLEAN", "BOOL"} -> v.t = "bool"
      [] OTHER -> TRUE

\* C9 (type coercion on insert): after a successful INSERT the stored row
\* holds, for each column, null or the written value converted by coerceType
\* to the declared type, and null for a column the INSERT does not list; the
\* text '5' written for an INTEGER column is stored as the integer 5.
C9_CoercionOnInsert ==
    (lastQuery.op = "query" /\ lastQuery.sql \in InsertTexts /\ lastResult.success)
    => Let(parseInsert(lastQuery.sql).val.row, LAMBDA written :
       Let(LastRow(data["T"]), LAMBDA stored :
           \A i \in 1..Len(meta["T"].columns) :
               Let(meta["T"].columns[i], LAMBDA column :
                   /\ column.name \in DOMAIN stored
                   /\ IF column.name \in DOMAIN written
                      THEN \/ stored[column.name] = Null
                           \/ /\ stored[column.name] = coerceType(written[column.name], column.type)
                              /\ HasType(stored[column.name], column.type)
                      ELSE stored[column.name] = Null
                   /\ (Get(written, column.name) = StrV("5") /\ column.type = "INTEGER")
                      => stored[column.name] = IntV(5))))

\* INSERT INTO T (id) VALUES ('5') on the INTEGER key stored 5, and null for u.
C9_Witness ==
    /\ lastQuery = [op |-> "query", sql |-> InsertKey(S("5"))]
    /\ lastResult.success
    /\ meta["T"].columns[1].type = "INTEGER"
    /\ LastRow(data["T"]) = [id |-> IntV(5), u |-> Null]

\* C10 (query never throws): every call of query() returns a result, and when
\* parsing or executing the text raises an error the result is
\* {success: false, error: <the message of the error>}.
C10_QueryNeverThrows ==
    [][lastQuery'.op = "query"
       => /\ ~lastResult'.threw
          /\ Run(St, lastQuery'.sql).thrown
             => lastResult' = Failure(Run(St, lastQuery'.sql).msg)]_vars

\* A statement on a table that does not exist came back as a failure.
C10_Witness ==
    /\ lastQuery.op = "query"
    /\ ~lastResult.threw
    /\ lastResult.keys = {"success", "error"}
    /\ ~lastResult.success
    /\ lastResult.error = NotExistMsg("T")

\* A node of a kind the executor has no case for.
UnknownNode == [type |-> "EXPLAIN", tableName |-> "T"]

\* The node of SELECT * FROM T JOIN T ON id = id: the ON text has no
\* 'alias.column = alias.column' in it.
MalformedJoinNode ==
    [parse(SelectAll(<<>>)).val EXCEPT
        !.join = [type |-> "JOIN", tableName |-> "T", tableAlias |-> "",
                  on |-> <<W("id"), O("="), W("id")>>]]

\* C11 as stated (execute never raises): for every text that parses, execute
\* on its node returns a result and throws nothing.
C11_ExecuteNeverThrows ==
    [][(lastQuery'.op = "query" /\ ~parse(lastQuery'.sql).thrown)
       => ~execute(St, parse(lastQuery'.sql).val).thrown]_vars

\* C11 (as the code has it): execute has no catch of its own.  On a node it
\* cannot carry out it throws an Error with a message, and query() is what
\* turns that Error into {success: false, error: message}; a node it carries
\* out gives a success result.  In every state a node of an unknown kind
\* throws 'Unknown query type', and a join whose ON text is malformed throws
\* 'Invalid JOIN ON clause' when the table exists.  Run on a text that parses
\* is execute on its node.
C11_ExecuteThrowsToQuery ==
    /\ [](/\ execute(St, UnknownNode) = Throw("Unknown query type: EXPLAIN", St)
          /\ tableExists(St, "T")
             => execute(St, MalformedJoinNode).msg = "Invalid JOIN ON clause")
    /\ [][(lastQuery'.op = "query" /\ ~parse(lastQuery'.sql).thrown)
          => IF Run(St, lastQuery'.sql).thrown
             THEN /\ lastResult'.error # ""
                  /\ lastResult' = Failure(Run(St, lastQuery'.sql).msg)
             ELSE /\ lastResult'.success
                  /\ lastResult' = Run(St, lastQuery'.sql).val]_vars

\* DROP TABLE T on a directory without T: execute threw, query() returned the
\* failure.
C11_Witness ==
    /\ lastQuery.op = "query"
    /\ lastQuery.sql \in DropTexts
    /\ execute(St, parse(lastQuery.sql).val).thrown
    /\ lastResult = Failure(NotExistMsg("T"))

\* The fields a successful result of each statement kind carries.
KeysOfKind(type) ==
    CASE type = "CREATE_TABLE" -> {"success", "message", "table"}
      [] type = "INSERT" -> {"success", "message", "row"}
      [] type = "SELECT" -> {"success", "rows", "count"}
      [] type \in {"UPDATE", "DELETE"} -> {"success", "message", "count"}
      [] type = "DROP_TABLE" -> {"success", "message"}

\* C12 as stated (exactly one of rows, count, message): a successful result
\* of query() carries exactly one of the three fields.
C12_ExactlyOneField ==
    (lastQuery.op = "query" /\ lastResult.success)
    => Cardinality(lastResult.keys \cap {"rows", "count", "message"}) = 1

\* C12 (as the code has it): the fields of a successful result are fixed by
\* the statement kind.  A SELECT carries rows and count together, with count
\* the number of rows; an UPDATE or DELETE carries count and message
\* together; CREATE TABLE, INSERT and DROP TABLE carry the message (with the
\* table, the row, nothing).  No successful result carries rows with a
\* message, and none carries an error.
C12_ShapeByKind ==
    (lastQuery.op = "query" /\ lastResult.success)
    => /\ ~parse(lastQuery.sql).thrown
       /\ lastResult.keys = KeysOfKind(parse(lastQuery.sql).val.type)
       /\ ~({"rows", "message"} \subseteq lastResult.keys)
       /\ "error" \notin lastResult.keys
       /\ "rows" \in lastResult.keys => lastResult.count = Len(lastResult.rows)
       /\ "message" \in lastResult.keys => lastResult.message # ""

\* A SELECT came back with two rows and the count 2.
C12_Witness ==
    /\ lastQuery.op = "query"
    /\ lastResult.success
    /\ lastResult.keys = {"success", "rows", "count"}
    /\ Len(lastResult.rows) = 2
    /\ lastResult.count = 2

\* The row an INSERT text asks table T to store, after prepareRow.
PreparedRow(st, sql) == prepareRow(st.meta["T"], parseInsert(sql).val.row)

\* The violations validateRow finds in that row, column by column.
RowViolations(st, sql) == RowErrors(st.meta["T"].columns, PreparedRow(st, sql), 1)

\* The row's primary key is null or is the key of a stored row, or one of its
\* unique columns holds the non-null value a stored row holds there.
KeyViolation(st, sql) ==
    Let(PreparedRow(st, sql), LAMBDA row :
        \/ /\ st.meta["T"].primaryKey # ""
           /\ \/ IsNullish(row[st.meta["T"].primaryKey])
              \/ \E i \in 1..Len(st.data["T"]) :
                    st.data["T"][i][st.meta["T"].primaryKey] = row[st.meta["T"].primaryKey]
        \/ \E k \in 1..Len(st.meta["T"].uniqueKeys) :
              /\ ~IsNullish(row[st.meta["T"].uniqueKeys[k]])
              /\ \E i \in 1..Len(st.data["T"]) :
                    st.data["T"][i][st.meta["T"].uniqueKeys[k]] = row[st.meta["T"].uniqueKeys[k]])

\* C13 (validation precedes persistence): an INSERT into the existing table T
\* whose row breaks a NOT NULL constraint, a declared type or a primary /
\* unique key fails, and the stored rows, the metadata and every index (on
\* disk and cached) are after it what they were before it; when validateRow
\* finds violations, the one error lists all of them, joined by ', '.
C13_ValidationPrecedesPersistence ==
    [][\A sql \in InsertTexts :
          (/\ lastQuery' = [op |-> "query", sql |-> sql]
           /\ tableExists(St, "T")
           /\ (Len(RowViolations(St, sql)) > 0 \/ KeyViolation(St, sql)))
          => /\ ~lastResult'.threw
             /\ ~lastResult'.success
             /\ data' = data
             /\ meta' = meta
             /\ idxDisk' = idxDisk
             /\ idxCache' = idxCache
             /\ Len(RowViolations(St, sql)) > 0
                => lastResult'.error
                   = "Validation failed: " \o JoinComma(RowViolations(St, sql))]_vars

\* An INSERT of null for both columns of T (id TEXT PRIMARY KEY, u INTEGER NOT
\* NULL), which already holds a row, was refused with both violations in one
\* error.
C13_Witness ==
    /\ lastQuery = [op |-> "query", sql |-> InsertBoth(W("null"), W("null"))]
    /\ tableExists(St, "T")
    /\ Len(data["T"]) >= 1
    /\ lastResult.error
       = "Validation failed: Column 'id' cannot be null, Column 'u' cannot be null"

StatementsOnT == InsertTexts \cup SelectTexts \cup UpdateTexts \cup DeleteTexts \cup DropTexts

\* C15 (schema errors leave the state unchanged): CREATE TABLE T while T
\* exists fails with 'already exists', and an INSERT, SELECT, UPDATE, DELETE
\* or DROP TABLE on T while T does not exist fails with 'does not exist';
\* either way the metadata, the rows, the index files and the cached indexes
\* of the database are what they were before the query.
C15_SchemaErrorsChangeNothing ==
    [][/\ (lastQuery'.op = "query" /\ lastQuery'.sql \in CreateTexts /\ tableExists(St, "T"))
          => /\ lastResult' = Failure("Table 'T' already exists")
             /\ meta' = meta
             /\ data' = data
             /\ idxDisk' = idxDisk
             /\ idxCache' = idxCache
       /\ (lastQuery'.op = "query" /\ lastQuery'.sql \in StatementsOnT /\ ~tableExists(St, "T"))
          => /\ lastResult' = Failure("Table 'T' does not exist")
             /\ meta' = meta
             /\ data' = data
             /\ idxDisk' = idxDisk
             /\ idxCache' = idxCache]_vars

\* CREATE TABLE T with the other schema, on a T that holds two rows, failed
\* with 'already exists'.
C15_Witness ==
    /\ lastQuery.op = "query"
    /\ lastQuery.sql \in CreateTexts
    /\ lastResult = Failure("Table 'T' already exists")
    /\ Len(data["T"]) = 2
    /\ meta["T"] # parseCreateTable(lastQuery.sql).val.schema @@ [tableName |-> "T"]

\* index is the index of column c over rows: it has an entry for each
\* non-null value of the column and for nothing else, and the entry of a
\* value lists, in ascending order, the 0-based positions of the rows that
\* hold the value.
IsIndexOver(index, rows, c) ==
    /\ DOMAIN index = {Get(rows[i], c) : i \in {j \in 1..Len(rows) : ~IsNullish(Get(rows[j], c))}}
    /\ \A v \in DOMAIN index :
          /\ \A k \in 1..(Len(index[v]) - 1) : index[v][k] < index[v][k + 1]
          /\ {index[v][k] : k \in 1..Len(index[v])}
             = {i - 1 : i \in {j \in 1..Len(rows) : Get(rows[j], c) = v}}

\* C16 (index consistency): whatever queries have completed, with success or
\* not, every existing table has, for its primary key and for each of its
\* unique keys, an index file that is the index of that column over the
\* table's current rows; the index the instance has cached for the column, if
\* any, is that same index, and loadIndex finds it.
C16_IndexesConsistent ==
    \A tableName \in DOMAIN meta :
        \A k \in 1..Len(IndexedColumns(meta[tableName])) :
            Let(IndexedColumns(meta[tableName])[k], LAMBDA c :
                /\ getIndexPath(tableName, c) \in DOMAIN idxDisk
                /\ IsIndexOver(idxDisk[getIndexPath(tableName, c)], data[tableName], c)
                /\ CacheKey(tableName, c) \in DOMAIN idxCache
                   => idxCache[CacheKey(tableName, c)] = idxDisk[getIndexPath(tableName, c)]
                /\ loadIndex(St, tableName, c).val
                   = [found |-> TRUE, index |-> idxDisk[getIndexPath(tableName, c)]])

\* UPDATE T SET id = 5 gave both rows of T the key 5, and the index of id
\* lists both positions under 5.
C16_Witness ==
    /\ lastQuery.op = "query"
    /\ lastQuery.sql \in UpdateTexts
    /\ lastResult.success
    /\ tableExists(St, "T")
    /\ Len(data["T"]) = 2
    /\ IntV(5) \in DOMAIN idxCache[CacheKey("T", "id")]
    /\ idxCache[CacheKey("T", "id")][IntV(5)] = <<0, 1>>

\* The columns of T that one of the schemas of Spec gives an index.
ColumnsOfT == {"id", "u"}

\* C17 (drop lifecycle).  A successful DROP TABLE T leaves no metadata file
\* (what listTables lists), no rows file and no cached Table of T.  While T
\* does not exist, every statement on T fails with 'does not exist', and
\* there is no index of a column of T in the cache or on disk, so lookup
\* reports no index.  A CREATE TABLE T that then succeeds gives T the schema
\* written, no row, and an empty index for the primary key and each unique
\* key of that schema and no other index.
C17_DropLifecycle ==
    [][/\ (lastQuery'.op = "query" /\ lastQuery'.sql \in DropTexts /\ lastResult'.success)
          => /\ tableExists(St, "T")
             /\ "T" \notin DOMAIN meta'
             /\ "T" \notin DOMAIN data'
             /\ "T" \notin DOMAIN tables'
       /\ ~tableExists(St', "T")
          => /\ \A sql \in StatementsOnT :
                   query(St', sql).val = Failure("Table 'T' does not exist")
             /\ \A c \in ColumnsOfT :
                   /\ CacheKey("T", c) \notin DOMAIN idxCache'
                   /\ getIndexPath("T", c) \notin DOMAIN idxDisk'
                   /\ \A v \in {IntV(5), StrV("5")} : ~lookup(St', "T", c, v).val.found
       /\ (lastQuery'.op = "query" /\ lastQuery'.sql \in CreateTexts /\ lastResult'.success)
          => /\ meta'["T"] = parseCreateTable(lastQuery'.sql).val.schema @@ [tableName |-> "T"]
             /\ tables'["T"] = meta'["T"]
             /\ data'["T"] = <<>>
             /\ \A c \in ColumnsOfT :
                   IF \E k \in 1..Len(IndexedColumns(meta'["T"])) :
                         IndexedColumns(meta'["T"])[k] = c
                   THEN /\ idxDisk'[getIndexPath("T", c)] = EmptyMap
                        /\ idxCache'[CacheKey("T", c)] = EmptyMap
                        /\ lookup(St', "T", c, IntV(5)).val
                           = [found |-> TRUE, positions |-> <<>>]
                   ELSE /\ getIndexPath("T", c) \notin DOMAIN idxDisk'
                        /\ CacheKey("T", c) \notin DOMAIN idxCache'
                        /\ ~lookup(St', "T", c, IntV(5)).val.found]_vars

\* DROP TABLE T succeeded: T is gone and a lookup on its key finds no index.
C17_Witness ==
    /\ lastQuery.op = "query"
    /\ lastQuery.sql \in DropTexts
    /\ lastResult.success
    /\ ~tableExists(St, "T")
    /\ ~lookup(St, "T", "id", IntV(5)).val.found

\* after is before with the assignments merged over it: an assigned column
\* holds the assigned value, every other column holds what it held.
IsMergedOver(after, before, assignments) ==
    /\ DOMAIN after = (DOMAIN before) \cup (DOMAIN assignments)
    /\ \A k \in DOMAIN assignments : after[k] = assignments[k]
    /\ \A k \in (DOMAIN before) \ (DOMAIN assignments) : after[k] = before[k]

\* C20 (UPDATE effect and frame): an UPDATE on the existing table T succeeds;
\* the row sequence keeps its length and order; a row that satisfies the
\* WHERE predicate (every row without a WHERE) is replaced by itself with the
\* SET assignments merged over it, any other row is unchanged; count is the
\* number of rows that satisfy the predicate; the metadata is unchanged; and
\* the index of each key column is afterwards the index over the new rows.
C20_UpdateEffectAndFrame ==
    [][\A sql \in UpdateTexts :
          (lastQuery' = [op |-> "query", sql |-> sql] /\ tableExists(St, "T"))
          => Let(parseUpdate(sql).val, LAMBDA node :
                 /\ lastResult'.success
                 /\ Len(data'["T"]) = Len(data["T"])
                 /\ \A i \in 1..Len(data["T"]) :
                       IF node.where = NoWhere
                          \/ evaluateCondition(data["T"][i], node.where) = "T"
                       THEN IsMergedOver(data'["T"][i], data["T"][i], node.updates)
                       ELSE data'["T"][i] = data["T"][i]
                 /\ lastResult'.count
                    = Cardinality({i \in 1..Len(data["T"]) :
                                     \/ node.where = NoWhere
                                     \/ evaluateCondition(data["T"][i], node.where) = "T"})
                 /\ meta' = meta
                 /\ \A k \in 1..Len(IndexedColumns(meta["T"])) :
                       Let(IndexedColumns(meta["T"])[k], LAMBDA c :
                           /\ IsIndexOver(idxDisk'[getIndexPath("T", c)], data'["T"], c)
                           /\ idxCache'[CacheKey("T", c)] = idxDisk'[getIndexPath("T", c)]))]_vars

\* UPDATE T SET id = 5 WHERE id = 7 changed one of the two rows of T and left
\* the other, whose key is not 5, as it was.
C20_Witness ==
    /\ lastQuery = [op |-> "query",
                    sql |-> <<W("UPDATE"), W("T"), W("SET"), W("id"), O("="), N(5)>>
                            \o WhereEq("id", N(7))]
    /\ lastResult.success
    /\ lastResult.count = 1
    /\ Len(data["T"]) = 2
    /\ \E i, j \in 1..2 : data["T"][i]["id"] = IntV(5) /\ data["T"][j]["id"] # IntV(5)

\* C18 (lost update under overlap): when the second instance goes on from the
\* rows it loaded and its statement succeeds, the rows file holds what the
\* statement makes of the rows it loaded (the loaded rows and its new row for
\* an INSERT, the loaded rows with the assignment merged over each for an
\* UPDATE of every row, nothing for a DELETE of every row), whatever the
\* other instance has written to the file since the load; a statement that
\* fails leaves the file as it is.  The whole file is written over, so the
\* last writer wins.
C18_LastWriterWins ==
    [][(peer.pc = "loaded" /\ peer'.pc = "idle")
       => IF peer'.result.success
          THEN CASE peer.sql = InsertKey(N(5)) ->
                      data'["T"] = Append(peer.rows, [id |-> IntV(5), u |-> Null])
                 [] peer.sql = UpdateAllText ->
                      /\ Len(data'["T"]) = Len(peer.rows)
                      /\ \A i \in 1..Len(peer.rows) :
                            IsMergedOver(data'["T"][i], peer.rows[i], [id |-> IntV(7)])
                 [] peer.sql = DeleteAll -> data'["T"] = <<>>
          ELSE data' = data]_vars

\* Both callers were told of success, the first for its INSERT of key 7 made
\* while the second was between load and save, the second for its INSERT of
\* key 5; the rows file holds no row with key 7.
C18_Witness ==
    /\ lastQuery = [op |-> "query", sql |-> InsertKey(N(7))]
    /\ lastResult.success
    /\ peer.pc = "idle"
    /\ peer.sql = InsertKey(N(5))
    /\ peer.during = InsertKey(N(7))
    /\ peer.result.success
    /\ \A i \in 1..Len(data["T"]) : data["T"][i]["id"] # IntV(7)

\* The rows at the positions an index lists under value, read from rows;
\* a position past the end gives the absent row.
RowsAtCached(index, value, rows) ==
    Let(IF value \in DOMAIN index THEN index[value] ELSE <<>>, LAMBDA positions :
        [k \in 1..Len(positions) |->
            IF positions[k] < Len(rows) THEN rows[positions[k] + 1] ELSE AbsentRow])

\* C19 (no cache invalidation across processes): no step of the second
\* instance changes the indexes the first instance has cached, and a SELECT *
\* FROM T WHERE id = v of the first instance answers with the rows of the
\* current rows file at the positions its cached index lists under v,
\* whatever the index file and the rows are by then; the SELECT leaves the
\* cached index as it is.
C19_CachedIndexStaysInUse ==
    [][/\ peer'.pc # peer.pc => (idxCache' = idxCache /\ tables' = tables)
       /\ (/\ peer'.pc = peer.pc
           /\ lastQuery'.op = "query"
           /\ lastQuery'.sql \in SharedSelectTexts
           /\ tableExists(St, "T")
           /\ CacheKey("T", "id") \in DOMAIN idxCache)
          => /\ lastResult'.success
             /\ lastResult'.rows
                = RowsAtCached(idxCache[CacheKey("T", "id")],
                               parseSelect(lastQuery'.sql).val.where.value, data["T"])
             /\ idxCache' = idxCache]_vars

\* After the second instance set every key to 7, the first instance's SELECT
\* ... WHERE id = 5 returned a row whose id is 7.
C19_Witness ==
    /\ lastQuery = [op |-> "query", sql |-> SelectAll(WhereEq("id", N(5)))]
    /\ lastResult.success
    /\ Len(lastResult.rows) = 1
    /\ lastResult.rows[1] # AbsentRow
    /\ lastResult.rows[1]["id"] = IntV(7)
    /\ peer.sql = UpdateAllText
    /\ peer.result.success

\* The k-th smallest of a set of positions.
NthOf(positions, k) ==
    CHOOSE i \in positions : Cardinality({j \in positions : j < i}) = k - 1

\* The DELETE statements of Spec that carry a WHERE.
DeleteWhereTexts == {sql \in DeleteTexts : Len(sql) > 3}

\* C21 (DELETE with a predicate): DELETE FROM T WHERE p on the existing table
\* T succeeds and keeps exactly the rows for which evaluateCondition(row, p)
\* is false, unchanged and in their original relative order; count is the
\* number of rows before less the number after; the metadata is unchanged.
C21_DeleteWhere ==
    [][\A sql \in DeleteWhereTexts :
          (lastQuery' = [op |-> "query", sql |-> sql] /\ tableExists(St, "T"))
          => Let({i \in 1..Len(data["T"]) :
                    evaluateCondition(data["T"][i], parseDelete(sql).val.where) = "F"},
                 LAMBDA kept :
                 /\ parseDelete(sql).val.where # NoWhere
                 /\ lastResult'.success
                 /\ Len(data'["T"]) = Cardinality(kept)
                 /\ \A k \in 1..Cardinality(kept) : data'["T"][k] = data["T"][NthOf(kept, k)]
                 /\ lastResult'.count = Len(data["T"]) - Len(data'["T"])
                 /\ meta' = meta)]_vars

\* DELETE FROM T WHERE id = 5 removed one row of T and kept another, whose
\* key is not 5.
C21_Witness ==
    /\ lastQuery = [op |-> "query", sql |-> DeleteAll \o WhereEq("id", N(5))]
    /\ lastResult.success
    /\ lastResult.count = 1
    /\ Len(data["T"]) = 1
    /\ data["T"][1]["id"] = IntV(7)

\* The SELECT * statements of Spec that carry a WHERE.
SelectWhereTexts == {sql \in SelectTexts : sql[2] = P("*") /\ Len(sql) > 4}

\* An index of (T, c) is there for this instance: cached, or on disk.
HasIndexOf(c) ==
    CacheKey("T", c) \in DOMAIN idxCache \/ getIndexPath("T", c) \in DOMAIN idxDisk

\* rows are the rows of table for which the condition is true, in table order.
IsScanOf(rows, table, condition) ==
    Let({i \in 1..Len(table) : evaluateCondition(table[i], condition) = "T"}, LAMBDA hits :
        /\ Len(rows) = Cardinality(hits)
        /\ \A k \in 1..Cardinality(hits) : rows[k] = table[NthOf(hits, k)])

\* C22 (index selection policy): a SELECT * FROM T WHERE ... on the existing
\* table T succeeds.  When the WHERE is an AND or an OR, or a comparison with
\* an operator other than '=', no index is consulted (none is loaded into the
\* cache) and the result is the rows for which evaluateCondition is true, in
\* table order.  When it is c = v and there is no index of (T, c), the result
\* is that same scan.  When it is c = v and there is an index of (T, c), the
\* result is the rows at the positions the index lists under v.
C22_IndexSelection ==
    [][\A sql \in SelectWhereTexts :
          (lastQuery' = [op |-> "query", sql |-> sql] /\ tableExists(St, "T"))
          => Let(parseSelect(sql).val.where, LAMBDA where :
                 /\ lastResult'.success
                 /\ lastResult'.count = Len(lastResult'.rows)
                 /\ IF where.type # "CMP" \/ where.operator # "="
                    THEN /\ IsScanOf(lastResult'.rows, data["T"], where)
                         /\ idxCache' = idxCache
                    ELSE IF ~HasIndexOf(where.column)
                    THEN /\ IsScanOf(lastResult'.rows, data["T"], where)
                         /\ idxCache' = idxCache
                    ELSE /\ CacheKey("T", where.column) \in DOMAIN idxCache'
                         /\ lastResult'.rows
                            = RowsAtCached(idxCache'[CacheKey("T", where.column)],
                                           where.value, data["T"]))]_vars

\* T (id TEXT PRIMARY KEY, u INTEGER NOT NULL) has no index of u: SELECT *
\* FROM T WHERE u = '5' found, by the scan, the row whose u is the number 5.
C22_Witness ==
    /\ lastQuery = [op |-> "query", sql |-> SelectAll(WhereEq("u", S("5")))]
    /\ lastResult.success
    /\ Len(lastResult.rows) = 1
    /\ lastResult.rows[1]["u"] = IntV(5)
    /\ tableExists(St, "T")
    /\ ~HasIndexOf("u")

\* The alias written after the table name at position at: the next token,
\* unless the text ends there or goes on with JOIN, WHERE or ON.
WrittenAlias(toks, at) ==
    IF at + 1 > Len(toks)
       \/ IsKw(toks, at + 1, "JOIN") \/ IsKw(toks, at + 1, "WHERE") \/ IsKw(toks, at + 1, "ON")
    THEN ""
    ELSE WordAt(toks, at + 1)

\* C23 (optional FROM alias): the node parseSelect makes of a SELECT has the
\* alias written after the FROM table, and none (null) when the table name is
\* followed directly by JOIN, by WHERE or by the end of the text; the same
\* holds for the alias of the JOIN table, followed directly by ON.
C23_OptionalAlias ==
    (lastQuery.op = "query" /\ IsKw(lastQuery.sql, 1, "SELECT") /\ ~parse(lastQuery.sql).thrown)
    => Let(parseSelect(lastQuery.sql).val, LAMBDA node :
           /\ node.tableAlias = WrittenAlias(lastQuery.sql, FirstKw(lastQuery.sql, "FROM") + 1)
           /\ node.join # NoJoin
              => node.join.tableAlias
                 = WrittenAlias(lastQuery.sql, FirstKw(lastQuery.sql, "JOIN") + 1))

\* The table a qualifier of the join statements names: the table name
\* itself, or the alias written for it.
NamedTable(qualifier) == IF qualifier \in {"A", "l"} THEN "A" ELSE "B"

\* The requested column tokens of a SELECT text.
RequestedTokens(sql) ==
    {sql[i] : i \in {j \in 2..(FirstKw(sql, "FROM") - 1) : sql[j] # P(",")}}

\* row is the projection of the pair (leftRow of A, rightRow of B) on the
\* requested tokens: a qualified token holds the named table's column value,
\* a bare token holds the value of the first merged key ending in '.<token>'
\* (A's keys come first), and there is no key but for a requested token.
IsProjectionOf(row, tokens, leftRow, rightRow) ==
    /\ DOMAIN row \subseteq {TokText(tok) : tok \in tokens}
    /\ \A tok \in tokens :
          IF tok.k = "qual"
          THEN /\ TokText(tok) \in DOMAIN row
               /\ row[TokText(tok)]
                  = (IF NamedTable(tok.s) = "A" THEN leftRow ELSE rightRow)[tok.c]
          ELSE IF tok.s \in DOMAIN leftRow THEN Get(row, tok.s) = leftRow[tok.s]
          ELSE IF tok.s \in DOMAIN rightRow THEN Get(row, tok.s) = rightRow[tok.s]
          ELSE tok.s \notin DOMAIN row

\* C24 (join projection): a join with a column list gives one row per matching
\* pair, in the order of the pairs, and each row is the projection of its
\* pair on the requested tokens: with the columns of Test 2, qualified by the
\* aliases, each row carries the A row's id and the B row's x.
C24_JoinProjection ==
    (/\ lastQuery.op = "query"
     /\ lastQuery.sql \in JoinColumnTexts
     /\ tableExists(St, "A")
     /\ tableExists(St, "B"))
    => /\ lastResult.success
       /\ Let(MatchingPairs(data["A"], "id", data["B"], "a_id", 1, 1), LAMBDA pairs :
              /\ Len(lastResult.rows) = Len(pairs)
              /\ \A k \in 1..Len(pairs) :
                    IsProjectionOf(lastResult.rows[k], RequestedTokens(lastQuery.sql),
                                   data["A"][pairs[k][1]], data["B"][pairs[k][2]]))

\* The positions of the columns of a schema that carry a constraint.
Carrying(schema, constraint) ==
    {i \in 1..Len(schema.columns) : constraint \in schema.columns[i].constraints}

\* C25 (schema invariant from CREATE TABLE): in the schema parseCreateTable
\* makes of a CREATE TABLE text, at most one column carries PRIMARY_KEY, a
\* column that carries it is the one schema.primaryKey names and also carries
\* NOT_NULL, a named primary key is a column that carries PRIMARY_KEY, and a
\* column is in schema.uniqueKeys exactly when UNIQUE is written in its
\* definition.  The stored metadata of the created table is that schema.
C25_SchemaInvariant ==
    \A defs \in SchemaDefs :
        lastQuery = [op |-> "query", sql |-> SchemaText(defs)]
        => Let(parseCreateTable(lastQuery.sql).val.schema, LAMBDA schema :
               /\ Cardinality(Carrying(schema, "PRIMARY_KEY")) <= 1
               /\ \A i \in Carrying(schema, "PRIMARY_KEY") :
                     /\ schema.columns[i].name = schema.primaryKey
                     /\ i \in Carrying(schema, "NOT_NULL")
               /\ schema.primaryKey # ""
                  => \E i \in Carrying(schema, "PRIMARY_KEY") :
                        schema.columns[i].name = schema.primaryKey
               /\ Len(schema.columns) = Len(defs)
               /\ \A i \in 1..Len(defs) :
                     (\E k \in 1..Len(schema.uniqueKeys) :
                         schema.uniqueKeys[k] = TokText(defs[i][1]))
                     <=> (\E n \in 1..Len(defs[i]) : defs[i][n] = W("UNIQUE"))
               /\ lastResult.success
                  => meta["T"] = schema @@ [tableName |-> "T"])

\* C26 (key uniqueness): in every state, no two rows of a table hold the same
\* non-null value in the table's primary-key column or in one of its
\* unique-key columns.
C26_KeysUnique ==
    \A tableName \in DOMAIN meta :
        \A k \in 1..Len(IndexedColumns(meta[tableName])) :
            \A i, j \in 1..Len(data[tableName]) :
                (/\ i # j
                 /\ ~IsNullish(Get(data[tableName][i], IndexedColumns(meta[tableName])[k])))
                => Get(data[tableName][i], IndexedColumns(meta[tableName])[k])
                   # Get(data[tableName][j], IndexedColumns(meta[tableName])[k])

\* C27 (NOT NULL): in every state, every stored row has a key for every
\* declared column of its table, and holds no null in a column whose
\* constraints include NOT_NULL (the primary-key column among them).
C27_NotNull ==
    \A tableName \in DOMAIN meta :
        \A i \in 1..Len(data[tableName]) :
            \A k \in 1..Len(meta[tableName].columns) :
                /\ meta[tableName].columns[k].name \in DOMAIN data[tableName][i]
                /\ "NOT_NULL" \in meta[tableName].columns[k].constraints
                   => ~IsNullish(Get(data[tableName][i], meta[tableName].columns[k].name))

\* UPDATE T SET u = 'z' <where>: an assignment that changes every row it is
\* applied to, since no statement of Spec stores 'z'.
MarkText(w) == <<W("UPDATE"), W("T"), W("SET"), W("u"), O("="), S("z")>> \o w

\* SELECT * FROM T WHERE c = v, DELETE FROM T WHERE c = v and UPDATE T SET ...
\* WHERE c = v, each issued in state st, pick the same rows: the rows the
\* SELECT returns are the rows the DELETE removes and the rows the UPDATE
\* modifies, and the three counts are equal.
AgreeOn(st, w) ==
    Let(query(st, SelectAll(w)).val, LAMBDA selected :
    Let(query(st, DeleteAll \o w), LAMBDA deleted :
    Let(query(st, MarkText(w)), LAMBDA updated :
        /\ selected.success /\ deleted.val.success /\ updated.val.success
        /\ selected.count = deleted.val.count
        /\ selected.count = updated.val.count
        /\ RowSet(selected.rows)
           = RowSet(st.data["T"]) \ RowSet(deleted.st.data["T"])
        /\ RowSet(selected.rows)
           = {st.data["T"][i] : i \in {j \in 1..Len(st.data["T"]) :
                                          updated.st.data["T"][j] # st.data["T"][j]}})))

\* C28 (SELECT and DELETE / UPDATE agree on matching): in every state where T
\* exists, for every equality c = v, SELECT, DELETE and UPDATE with WHERE c = v
\* pick the same rows and report the same count.
C28_SelectDeleteAgree ==
    tableExists(St, "T") => \A w \in EqTexts : AgreeOn(St, w)

\* The persisted and the cached index of a (table, column) pair in state st:
\* the entries, or nothing where there is no file or no cache entry.
IndexesOf(st, pair) ==
    [persisted |-> IF getIndexPath(pair.t, pair.c) \in DOMAIN st.idxDisk
                   THEN <<st.idxDisk[getIndexPath(pair.t, pair.c)]>> ELSE <<>>,
     cached |-> IF CacheKey(pair.t, pair.c) \in DOMAIN st.idxCache
                THEN <<st.idxCache[CacheKey(pair.t, pair.c)]>> ELSE <<>>]

\* C29 (index isolation between (table, column) pairs): a statement on one
\* table, whatever index it builds, rebuilds or drops, leaves the persisted
\* and the cached index of a pair of another table as they were; and lookup
\* reports an index for (t, c) only when one was built for exactly t and c:
\* t exists and the index reported is the index of column c over t's rows.
\* The pairs are (a_b, c) and (a, b_c).
C29_IndexIsolation ==
    [][\A pair \in NamePairs :
          /\ (/\ lastQuery'.op = "query"
              /\ ~parse(lastQuery'.sql).thrown
              /\ parse(lastQuery'.sql).val.tableName # pair.t)
             => IndexesOf(St', pair) = IndexesOf(St, pair)
          /\ loadIndex(St', pair.t, pair.c).val.found
             => /\ tableExists(St', pair.t)
                /\ IsIndexOver(loadIndex(St', pair.t, pair.c).val.index,
                               data'[pair.t], pair.c)]_vars

\* The joins written with SELECT * and both aliases, with the tables and the
\* join columns their ON clauses resolve to.
JoinCases ==
    { [texts |-> AliasedJoinTexts, left |-> "A", leftCol |-> "id",
       right |-> "B", rightCol |-> "a_id"],
      [texts |-> SelfJoinTexts, left |-> "B", leftCol |-> "a_id",
       right |-> "B", rightCol |-> "a_id"],
      [texts |-> AbsentColumnJoinTexts, left |-> "A", leftCol |-> "zz",
       right |-> "B", rightCol |-> "zz"] }

\* The pairs of a left and a right row that both hold a value in their join
\* column, neither null nor absent, and hold the same one.
PresentPairs(leftRows, leftCol, rightRows, rightCol) ==
    {pair \in (1..Len(leftRows)) \X (1..Len(rightRows)) :
        /\ ~IsNullish(Get(leftRows[pair[1]], leftCol))
        /\ ~IsNullish(Get(rightRows[pair[2]], rightCol))
        /\ Get(leftRows[pair[1]], leftCol) = Get(rightRows[pair[2]], rightCol)}

\* C30 (a join pairs rows only on present values): a join emits one merged
\* row for each pair of rows that hold the same non-null value in their join
\* columns and no row for any other pair; a pair whose join column is null or
\* absent on both sides is not emitted.
C30_JoinOnPresentValues ==
    \A case \in JoinCases :
        (/\ lastQuery.op = "query"
         /\ lastQuery.sql \in case.texts
         /\ tableExists(St, case.left)
         /\ tableExists(St, case.right))
        => /\ lastResult.success
           /\ Let(PresentPairs(data[case.left], case.leftCol,
                               data[case.right], case.rightCol), LAMBDA pairs :
                  /\ Len(lastResult.rows) = Cardinality(pairs)
                  /\ \A n \in 1..Len(lastResult.rows) :
                        \E pair \in pairs :
                            lastResult.rows[n]
                            = Merged(case.left, data[case.left][pair[1]],
                                     case.right, data[case.right][pair[2]]))

====
